---- MODULE Spec2Model ----
(***************************************************************************)
(* Sthira execution kernel: one Scope (ScopeFSM + TaskTable), the Tasks it *)
(* creates with their owned Workers, Handlers and Streams, and the         *)
(* WorkerPool the Tasks submit their work to.                              *)
(*                                                                         *)
(* JavaScript is single-threaded: every action below is one synchronous    *)
(* call (run to completion, callbacks it fires included) or one            *)
(* continuation of an async function taken from the event loop.            *)
(***************************************************************************)
EXTENDS Integers, Sequences, FiniteSets, TLC

\* ------------------------------------------------------------------ bounds
MaxTasks == 2          \* Task objects constructed in one behaviour
MaxWorkers == 1        \* ctx.spawnWorker calls made by user code per Task
MaxHandlers == 1       \* ctx.addHandler calls made by user code per Task
MaxStreams == 1        \* ctx.createStream calls made by user code per Task
NumExplicitRefs == 1   \* distinct caller-chosen refs
DefaultWorkers == 1    \* WorkerPoolConfig.defaultWorkers of the model's pool
MaxCalls == 7          \* transition() calls made on a ScopeFSM driven directly
MaxWorks == 4          \* execute() calls made on a WorkerPool driven directly
MaxConfig == 2         \* largest defaultWorkers and maxWorkers a pool is configured with
MaxScale == 3          \* largest argument given to scale()
MaxSubs == 3           \* subscriber functions given to a Stream driven directly
MaxBuf == 3            \* values emitted to a Stream driven directly
MaxScopes == 3         \* Scopes constructed through one Authority
MaxScopeIds == 2       \* distinct config.id values given to createScope
MaxChannels == 2       \* broadcast channels of an Authority
MaxMark == 3           \* largest highWaterMark a StreamBuffer is constructed with
MaxChunk == 2          \* distinct chunk values pushed to a StreamBuffer
NumScopes == 2         \* Scopes of one Authority that run tasks side by side
MaxUnits == 2          \* Worker objects, and Handler objects, driven directly
MaxListeners == 2      \* listener functions given to Authority.subscribe

TaskIds == 1..MaxTasks
WorkIds == 1..MaxWorks
ExplicitRefs == 1..NumExplicitRefs
NoRef == 0

VARIABLES
  fsm,            \* ScopeFSM._state
  table,          \* TaskTable._tasks: sequence of [ref, task] in Map insertion order
  tasks,          \* the Task objects ever constructed, by identity
  pooled,         \* Scope._workerPool !== null
  pworkers,       \* WorkerPool._workers: sequence in Map insertion order
  queue,          \* WorkerPool._queue: sequence of works (a work is a Task's fn)
  pdisposed,      \* WorkerPool._disposed
  disposeCalled,  \* history: Scope.dispose() has been called
  fsmlog,         \* history: the transition() calls made on a ScopeFSM driven directly
  pmax,           \* WorkerPool._config.maxWorkers
  works,          \* the works given to WorkerPool.execute directly, by submission number
  stream,         \* a Stream driven directly, with its subscribers
  auth,           \* an Authority driven directly, with its Scopes and listeners
  units,          \* Worker and Handler objects driven directly
  sbuf,           \* a StreamBuffer driven directly
  multi,          \* the Scopes of an Authority that run tasks on its one pool
  last            \* how the step just taken ended: "ok", the error thrown by the
                  \* call, or "effect" when an effect function was invoked

vars == <<fsm, table, tasks, pooled, pworkers, queue, pdisposed,
          disposeCalled, fsmlog, pmax, works, stream, auth, units, sbuf, multi,
          last>>

\* what the Scope and Task operations never touch
aux == <<fsmlog, pmax, works, stream, auth, units, sbuf, multi>>

\* --------------------------------------------------------------- ScopeFSM
FSMStates == {"INIT", "ATTACHED", "RUNNING", "SUSPENDED", "DISPOSING", "DISPOSED"}
FSMEvents == {"mounted", "taskStarted", "suspend", "resume", "dispose"}

\* mutant: DISPOSING advances to DISPOSED on the dispose event only
TransitionOnDisposeOnly(s, e) ==
  CASE s = "INIT"      -> IF e = "mounted" THEN "ATTACHED" ELSE s
    [] s = "ATTACHED"  -> IF e = "taskStarted" THEN "RUNNING"
                          ELSE IF e = "dispose" THEN "DISPOSING" ELSE s
    [] s = "RUNNING"   -> IF e = "suspend" THEN "SUSPENDED"
                          ELSE IF e = "dispose" THEN "DISPOSING" ELSE s
    [] s = "SUSPENDED" -> IF e = "resume" THEN "RUNNING"
                          ELSE IF e = "dispose" THEN "DISPOSING" ELSE s
    [] s = "DISPOSING" -> IF e = "dispose" THEN "DISPOSED" ELSE s
    [] OTHER           -> s

Transition(s, e) ==
  CASE s = "INIT"      -> IF e = "mounted" THEN "ATTACHED" ELSE s
    [] s = "ATTACHED"  -> IF e = "taskStarted" THEN "RUNNING"
                          ELSE IF e = "dispose" THEN "DISPOSING" ELSE s
    [] s = "RUNNING"   -> IF e = "suspend" THEN "SUSPENDED"
                          ELSE IF e = "dispose" THEN "DISPOSING" ELSE s
    [] s = "SUSPENDED" -> IF e = "resume" THEN "RUNNING"
                          ELSE IF e = "dispose" THEN "DISPOSING" ELSE s
    [] s = "DISPOSING" -> "DISPOSED"
    [] OTHER           -> s

\* the value transition(event) returns: this._state !== prev
Returns(s, e) == Transition(s, e) # s

\* mutant: canExecute also admits SUSPENDED
CanExecuteNotPaused(s) == s = "ATTACHED" \/ s = "RUNNING" \/ s = "SUSPENDED"

CanExecute(s) == s = "ATTACHED" \/ s = "RUNNING"

IsAlive(s) == s # "DISPOSING" /\ s # "DISPOSED"

\* ------------------------------------------------- Worker / Handler / Stream
\* What a listener registered on an AbortSignal does when the signal fires:
\* nothing, create one unit of each kind through ctx, or call task.abort().
ListenerKinds == {"none", "spawn", "abort"}

\* new Worker(ref) followed by worker.start(fn): fn is invoked synchronously
NewWorker(lk) ==
  [status |-> "running", aborted |-> FALSE, fnLive |-> TRUE, onAbort |-> lk]

WorkerIsActive(w) == w.status = "idle" \/ w.status = "running"

\* mutant: the catch block of Worker.start without its look at the signal
WorkerAfterFnFails(w, how) ==
  IF how = "return"
  THEN [w EXCEPT !.fnLive = FALSE,
                 !.status = IF w.status = "running" THEN "terminated" ELSE w.status]
  ELSE [w EXCEPT !.fnLive = FALSE, !.status = "failed"]

\* continuation of Worker.start after fn settled
WorkerAfterFn(w, how) ==
  IF how = "return"
  THEN [w EXCEPT !.fnLive = FALSE,
                 !.status = IF w.status = "running" THEN "terminated" ELSE w.status]
  ELSE [w EXCEPT !.fnLive = FALSE,
                 !.status = IF w.aborted THEN "terminated" ELSE "failed"]

\* new Handler(ref); handler.setFunction(fn)
NewHandler == [status |-> "pending", cancelled |-> FALSE]

HandlerCancelled(h) ==
  IF h.status = "completed" \/ h.status = "failed" THEN h
  ELSE [h EXCEPT !.cancelled = TRUE,
                 !.status = IF h.status = "pending" THEN "cancelled" ELSE h.status]

\* mutant: Handler.execute without its looks at the cancel flag after the await
HandlerAfterFnUnflagged(h, how) ==
  IF how = "return" THEN [h EXCEPT !.status = "completed"]
  ELSE [h EXCEPT !.status = "failed"]

\* continuation of Handler.execute after its function settled
HandlerAfterFn(h, how) ==
  IF h.cancelled THEN [h EXCEPT !.status = "cancelled"]
  ELSE IF how = "return" THEN [h EXCEPT !.status = "completed"]
  ELSE [h EXCEPT !.status = "failed"]

NewStream == [status |-> "open"]

StreamAborted(s) == IF s.status # "open" THEN s ELSE [s EXCEPT !.status = "aborted"]

\* ---------------------------------------------------------------------- Task
GeneratedRef(t) == 100 + t

NewTask(ref, viaRun) ==
  [born |-> TRUE, ref |-> ref, viaRun |-> viaRun,
   status |-> "pending", outcome |-> "null", result |-> "null", error |-> "null",
   aborted |-> FALSE,        \* _controller.signal.aborted
   pc |-> "new",             \* where the run() call of this Task stands
   promise |-> "none",       \* the promise of the run() call that started the Task
   invoked |-> 0,            \* how many times the user function was invoked
   onAbort |-> "none",       \* the listener the user function put on ctx.signal
   workers |-> <<>>, handlers |-> <<>>, streams |-> <<>>]

\* a Task object that has not been constructed yet
Unborn == [born |-> FALSE]

\* mutant: isActive forgets the aborted status
IsActiveUnlessSettled(T) == T.status # "success" /\ T.status # "error"

IsActive(T) == T.status = "pending" \/ T.status = "running"

Terminal == {"success", "error", "aborted"}

\* ctx.spawnWorker / ctx.addHandler / ctx.createStream: the unit is added only
\* to an active Task, otherwise the call throws and nothing changes.
SpawnWorkerIn(T, lk) ==
  IF ~IsActive(T) THEN T ELSE [T EXCEPT !.workers = Append(@, NewWorker(lk))]

AddHandlerIn(T) ==
  IF ~IsActive(T) THEN T ELSE [T EXCEPT !.handlers = Append(@, NewHandler)]

CreateStreamIn(T) ==
  IF ~IsActive(T) THEN T ELSE [T EXCEPT !.streams = Append(@, NewStream)]

RECURSIVE AbortTask(_)
RECURSIVE TerminateFrom(_, _)

\* an abort listener runs (an exception it throws is not propagated)
FireListener(T, kind) ==
  CASE kind = "spawn" -> CreateStreamIn(AddHandlerIn(SpawnWorkerIn(T, "none")))
    [] kind = "abort" -> AbortTask(T)
    [] OTHER          -> T

\* Worker.terminate() on the i-th owned worker: abort() fires the worker
\* signal's listeners while the status is still running, then the status is set
TerminateWorker(T, i) ==
  LET w == T.workers[i] IN
  IF ~WorkerIsActive(w) THEN T
  ELSE LET T1 == [T EXCEPT !.workers[i].aborted = TRUE]
           T2 == IF w.aborted THEN T1 ELSE FireListener(T1, w.onAbort)
       IN [T2 EXCEPT !.workers[i].status = "terminated"]

RECURSIVE TerminateUpTo(_, _, _)
TerminateUpTo(T, i, n) ==
  IF i > n THEN T ELSE TerminateUpTo(TerminateWorker(T, i), i + 1, n)

\* mutant: the loop runs over a copy of the map taken before it starts
TerminateSnapshot(T, i) == TerminateUpTo(T, i, Len(T.workers))

\* for (const worker of this._workers.values()): a Map iteration also visits
\* the entries added while it runs
TerminateFrom(T, i) ==
  IF i > Len(T.workers) THEN T ELSE TerminateFrom(TerminateWorker(T, i), i + 1)

\* mutant: abort() without its isActive guard
AbortTaskUnguarded(T) ==
  LET T1 == [T EXCEPT !.aborted = TRUE]
      T2 == IF T.aborted THEN T1 ELSE FireListener(T1, T.onAbort)
      T3 == TerminateFrom(T2, 1)
      T4 == [T3 EXCEPT !.handlers = [j \in DOMAIN @ |-> HandlerCancelled(@[j])]]
      T5 == [T4 EXCEPT !.streams = [j \in DOMAIN @ |-> StreamAborted(@[j])]]
  IN [T5 EXCEPT !.status = "aborted", !.outcome = "aborted"]

AbortTask(T) ==
  IF ~IsActive(T) THEN T
  ELSE LET T1 == [T EXCEPT !.aborted = TRUE]
           T2 == IF T.aborted THEN T1 ELSE FireListener(T1, T.onAbort)
           T3 == TerminateFrom(T2, 1)
           T4 == [T3 EXCEPT !.handlers = [j \in DOMAIN @ |-> HandlerCancelled(@[j])]]
           T5 == [T4 EXCEPT !.streams = [j \in DOMAIN @ |-> StreamAborted(@[j])]]
       IN [T5 EXCEPT !.status = "aborted", !.outcome = "aborted"]

\* mutant: no signal check after the await, a returned value is always stored
RunFinalizeNoRecheck(T, how) ==
  IF how = "return"
  THEN [T EXCEPT !.result = "value", !.status = "success", !.outcome = "success",
                 !.promise = "resolved", !.pc = "finalized"]
  ELSE IF T.aborted
       THEN [T EXCEPT !.status = "aborted", !.outcome = "aborted",
                      !.promise = "rejected", !.pc = "finalized"]
       ELSE [T EXCEPT !.status = "error", !.outcome = "error", !.error = "err",
                      !.promise = "rejected", !.pc = "finalized"]

\* mutant: the catch block records every exception as an error
RunFinalizeCatchAll(T, how) ==
  IF how = "return"
  THEN IF T.aborted
       THEN [T EXCEPT !.status = "aborted", !.outcome = "aborted",
                      !.promise = "rejected", !.pc = "finalized"]
       ELSE [T EXCEPT !.result = "value", !.status = "success", !.outcome = "success",
                      !.promise = "resolved", !.pc = "finalized"]
  ELSE [T EXCEPT !.status = "error", !.outcome = "error", !.error = "err",
                 !.promise = "rejected", !.pc = "finalized"]

\* the part of Task.run after the awaited function settled
RunFinalize(T, how) ==
  IF how = "return"
  THEN IF T.aborted
       THEN [T EXCEPT !.status = "aborted", !.outcome = "aborted",
                      !.promise = "rejected", !.pc = "finalized"]
       ELSE [T EXCEPT !.result = "value", !.status = "success", !.outcome = "success",
                      !.promise = "resolved", !.pc = "finalized"]
  ELSE IF T.aborted
       THEN [T EXCEPT !.status = "aborted", !.outcome = "aborted",
                      !.promise = "rejected", !.pc = "finalized"]
       ELSE [T EXCEPT !.status = "error", !.outcome = "error", !.error = "err",
                      !.promise = "rejected", !.pc = "finalized"]

\* ----------------------------------------------------------------- TaskTable
RefIndex(tb, ref) ==
  IF \E i \in DOMAIN tb : tb[i].ref = ref
  THEN CHOOSE i \in DOMAIN tb : tb[i].ref = ref
  ELSE 0

\* Map.set: an existing key keeps its place and gets the new value
Register(tb, ref, t) ==
  IF RefIndex(tb, ref) # 0
  THEN [tb EXCEPT ![RefIndex(tb, ref)] = [ref |-> ref, task |-> t]]
  ELSE Append(tb, [ref |-> ref, task |-> t])

Unregister(tb, ref) ==
  SelectSeq(tb, LAMBDA e : e.ref # ref)

Registered(tb) == {tb[i].task : i \in DOMAIN tb}

\* mutant: abortAll aborts every Task there is, whatever table holds it
AbortAllEverywhere(ts, tb) ==
  [t \in TaskIds |-> IF ts[t].born THEN AbortTask(ts[t]) ELSE ts[t]]

\* abortAll(scopeId): every Task of the table carries the id of the one Scope
AbortAll(ts, tb) ==
  [t \in TaskIds |-> IF t \in Registered(tb) THEN AbortTask(ts[t]) ELSE ts[t]]

\* ---------------------------------------------------------------- WorkerPool
IdleWorker(pw) ==
  IF \E i \in DOMAIN pw : pw[i].state = "idle"
  THEN CHOOSE i \in DOMAIN pw : pw[i].state = "idle"
                               /\ \A j \in 1..(i - 1) : pw[j].state # "idle"
  ELSE 0

InitializeWorkers(pw, n) ==
  pw \o [i \in 1..n |-> [state |-> "idle", work |-> 0]]

DispatchWork(pw, i, work) ==
  [pw EXCEPT ![i] = [state |-> "busy", work |-> work]]

\* mutant: execute() without its disposed check
ExecuteUnchecked(pw, q, disposed, work) ==
  IF IdleWorker(pw) # 0
  THEN [pw |-> DispatchWork(pw, IdleWorker(pw), work), q |-> q, at |-> "dispatched"]
  ELSE [pw |-> pw, q |-> Append(q, work), at |-> "queued"]

\* WorkerPool.execute(work) as seen by the submitting Task: the pool after the
\* call and where the work stands (refused: the pool is disposed and the
\* returned promise is already rejected)
Execute(pw, q, disposed, work) ==
  IF disposed THEN [pw |-> pw, q |-> q, at |-> "refused"]
  ELSE IF IdleWorker(pw) # 0
       THEN [pw |-> DispatchWork(pw, IdleWorker(pw), work), q |-> q, at |-> "dispatched"]
       ELSE [pw |-> pw, q |-> Append(q, work), at |-> "queued"]

\* mutant: the queue is drained from its tail
ProcessQueueLast(pw, q) ==
  IF q = <<>> \/ IdleWorker(pw) = 0 THEN [pw |-> pw, q |-> q, work |-> 0]
  ELSE [pw |-> DispatchWork(pw, IdleWorker(pw), q[Len(q)]),
        q |-> SubSeq(q, 1, Len(q) - 1), work |-> q[Len(q)]]

\* _processQueue(): the head of the queue goes to the first idle worker
ProcessQueue(pw, q) ==
  IF q = <<>> \/ IdleWorker(pw) = 0 THEN [pw |-> pw, q |-> q, work |-> 0]
  ELSE [pw |-> DispatchWork(pw, IdleWorker(pw), Head(q)), q |-> Tail(q), work |-> Head(q)]

RECURSIVE Pick(_, _, _)
\* the entries of pw whose index is in S, in order, from index i on
Pick(pw, S, i) ==
  IF i > Len(pw) THEN <<>>
  ELSE (IF i \in S THEN <<pw[i]>> ELSE <<>>) \o Pick(pw, S, i + 1)

\* _shrinkPool(count): the first count idle workers, in Map order, are deleted
ShrinkPool(pw, count) ==
  Pick(pw, {i \in DOMAIN pw :
              ~(pw[i].state = "idle"
                  /\ Cardinality({j \in 1..i : pw[j].state = "idle"}) <= count)}, 1)

Min(a, b) == IF a < b THEN a ELSE b

\* scale(count): the workers after the call
Scaled(pw, count, max, disposed) ==
  IF disposed THEN pw
  ELSE LET target == Min(count, max)
           current == Len(pw)
       IN IF target > current THEN InitializeWorkers(pw, target - current)
          ELSE IF target < current THEN ShrinkPool(pw, current - target)
          ELSE pw

\* --------------------------------------------------- Task.run, synchronous part
\* The body of Task.run up to its first await, for a Task whose status is
\* pending: the Task after it, and the pool after it.
RunStart(T, t, deferred, lk, pw, q) ==
  LET T1 == [T EXCEPT !.status = "running", !.promise = "pending"]
      ex == Execute(pw, q, pdisposed, t)
  IN IF T1.aborted
     THEN [task |-> [T1 EXCEPT !.status = "aborted", !.outcome = "aborted",
                               !.promise = "rejected", !.pc = "finalized"],
           pw |-> pw, q |-> q]
     ELSE IF deferred
     THEN [task |-> [T1 EXCEPT !.pc = "deferred"], pw |-> pw, q |-> q]
     ELSE IF pooled
     THEN [task |-> [T1 EXCEPT !.pc = ex.at], pw |-> ex.pw, q |-> ex.q]
     ELSE [task |-> [T1 EXCEPT !.pc = "executing", !.invoked = @ + 1, !.onAbort = lk],
           pw |-> pw, q |-> q]

NextId ==
  IF \E t \in TaskIds : ~tasks[t].born
  THEN CHOOSE t \in TaskIds : ~tasks[t].born /\ \A u \in 1..(t - 1) : tasks[u].born
  ELSE 0

AllRefs == ExplicitRefs \cup {GeneratedRef(t) : t \in TaskIds}

\* ------------------------------------------------------------------- Init
Init ==
  /\ fsm = "INIT"
  /\ table = <<>>
  /\ tasks = [t \in TaskIds |-> Unborn]
  /\ pooled \in BOOLEAN
  /\ pworkers = IF pooled THEN InitializeWorkers(<<>>, DefaultWorkers) ELSE <<>>
  /\ queue = <<>>
  /\ pdisposed = FALSE
  /\ disposeCalled = FALSE
  /\ fsmlog = <<>>
  /\ pmax = DefaultWorkers
  /\ works = <<>>
  /\ stream = <<>>
  /\ auth = <<>>
  /\ units = <<>>
  /\ sbuf = <<>>
  /\ multi = <<>>
  /\ last = "ok"

poolVars == <<pworkers, queue, pdisposed>>

\* ----------------------------------------------------------- Scope lifecycle
Mount ==
  /\ fsm' = Transition(fsm, "mounted")
  /\ last' = "ok"
  /\ UNCHANGED <<table, tasks, pooled, poolVars, disposeCalled, aux>>

Suspend ==
  /\ fsm' = Transition(fsm, "suspend")
  /\ last' = "ok"
  /\ UNCHANGED <<table, tasks, pooled, poolVars, disposeCalled, aux>>

Resume ==
  /\ fsm' = Transition(fsm, "resume")
  /\ last' = "ok"
  /\ UNCHANGED <<table, tasks, pooled, poolVars, disposeCalled, aux>>

Dispose ==
  /\ disposeCalled' = TRUE
  /\ last' = "ok"
  /\ IF ~IsAlive(fsm)
     THEN UNCHANGED <<fsm, tasks>>
     ELSE /\ tasks' = AbortAll(tasks, table)
          /\ fsm' = Transition(Transition(fsm, "dispose"), "dispose")
  /\ UNCHANGED <<table, pooled, poolVars, aux>>

\* ------------------------------------------------------------ Scope: tasks
CreateTask(ref) ==
  IF ~IsAlive(fsm)
  THEN last' = "disposed"
       /\ UNCHANGED <<fsm, table, tasks, pooled, poolVars, disposeCalled, aux>>
  ELSE IF ~CanExecute(fsm)
  THEN last' = "notReady"
       /\ UNCHANGED <<fsm, table, tasks, pooled, poolVars, disposeCalled, aux>>
  ELSE /\ NextId # 0
       /\ LET r == IF ref = NoRef THEN GeneratedRef(NextId) ELSE ref IN
          /\ tasks' = [tasks EXCEPT ![NextId] = NewTask(r, FALSE)]
          /\ table' = Register(table, r, NextId)
       /\ fsm' = IF fsm = "ATTACHED" THEN Transition(fsm, "taskStarted") ELSE fsm
       /\ last' = "ok"
       /\ UNCHANGED <<pooled, poolVars, disposeCalled, aux>>

\* Scope.run up to the first await: createTask() and the synchronous part of
\* task.run
ScopeRun(deferred, lk) ==
  IF ~IsAlive(fsm)
  THEN last' = "disposed"
       /\ UNCHANGED <<fsm, table, tasks, pooled, poolVars, disposeCalled, aux>>
  ELSE IF ~CanExecute(fsm)
  THEN last' = "notReady"
       /\ UNCHANGED <<fsm, table, tasks, pooled, poolVars, disposeCalled, aux>>
  ELSE /\ NextId # 0
       /\ LET ref == GeneratedRef(NextId)
              rs == RunStart(NewTask(ref, TRUE), NextId, deferred, lk, pworkers, queue)
          IN /\ tasks' = [tasks EXCEPT ![NextId] = rs.task]
             /\ table' = Register(table, ref, NextId)
             /\ pworkers' = rs.pw
             /\ queue' = rs.q
       /\ fsm' = IF fsm = "ATTACHED" THEN Transition(fsm, "taskStarted") ELSE fsm
       /\ last' = "ok"
       /\ UNCHANGED <<pooled, pdisposed, disposeCalled, aux>>

\* mutant: the unregister follows the await instead of sitting in a finally block
ScopeRunThen(t) ==
  /\ tasks[t].born
  /\ tasks[t].viaRun
  /\ tasks[t].pc = "finalized"
  /\ table' = IF tasks[t].status = "success" THEN Unregister(table, tasks[t].ref) ELSE table
  /\ tasks' = [tasks EXCEPT ![t].pc = "done"]
  /\ last' = "ok"
  /\ UNCHANGED <<fsm, pooled, poolVars, disposeCalled, aux>>

\* the finally block of Scope.run, after task.run settled
ScopeRunFinally(t) ==
  /\ tasks[t].born
  /\ tasks[t].viaRun
  /\ tasks[t].pc = "finalized"
  /\ table' = Unregister(table, tasks[t].ref)
  /\ tasks' = [tasks EXCEPT ![t].pc = "done"]
  /\ last' = "ok"
  /\ UNCHANGED <<fsm, pooled, poolVars, disposeCalled, aux>>

\* mutant: effect() is gated like createTask
ScopeEffectGated ==
  /\ IF ~IsAlive(fsm) THEN last' = "disposed"
     ELSE IF ~CanExecute(fsm) THEN last' = "notReady" ELSE last' = "effect"
  /\ UNCHANGED <<fsm, table, tasks, pooled, poolVars, disposeCalled, aux>>

\* scope.effect(fn)
ScopeEffect ==
  /\ IF ~IsAlive(fsm)
     THEN last' = "disposed" ELSE last' = "effect"
  /\ UNCHANGED <<fsm, table, tasks, pooled, poolVars, disposeCalled, aux>>

\* mutant: abortTask aborts the Task and leaves it in the table
ScopeAbortTaskKeep(ref) ==
  /\ IF RefIndex(table, ref) # 0
     THEN /\ tasks' = [tasks EXCEPT ![table[RefIndex(table, ref)].task] = AbortTask(@)]
          /\ last' = "true"
     ELSE UNCHANGED tasks /\ last' = "false"
  /\ UNCHANGED <<fsm, table, pooled, poolVars, disposeCalled, aux>>

\* scope.abortTask(ref); last is the value it returns
ScopeAbortTask(ref) ==
  /\ IF RefIndex(table, ref) # 0
     THEN /\ tasks' = [tasks EXCEPT ![table[RefIndex(table, ref)].task] = AbortTask(@)]
          /\ table' = Unregister(table, ref)
          /\ last' = "true"
     ELSE UNCHANGED <<tasks, table>> /\ last' = "false"
  /\ UNCHANGED <<fsm, pooled, poolVars, disposeCalled, aux>>

ScopeAbortAll ==
  /\ tasks' = AbortAll(tasks, table)
  /\ last' = "ok"
  /\ UNCHANGED <<fsm, table, pooled, poolVars, disposeCalled, aux>>

\* ------------------------------------------------------------------- Task
\* mutant: run() checks isActive instead of the pending status
CanRunWhileActive(T) == IsActive(T)

\* the guard at the head of Task.run
CanRun(T) == T.status = "pending"

\* task.run(fn, options) on a Task obtained from createTask
TaskRun(t, deferred, lk) ==
  /\ tasks[t].born
  /\ ~tasks[t].viaRun
  /\ IF ~CanRun(tasks[t])
     THEN last' = "cannotRun" /\ UNCHANGED <<tasks, pworkers, queue>>
     ELSE LET rs == RunStart(tasks[t], t, deferred, lk, pworkers, queue)
          IN /\ tasks' = [tasks EXCEPT ![t] = rs.task]
             /\ pworkers' = rs.pw
             /\ queue' = rs.q
             /\ last' = "ok"
  /\ UNCHANGED <<fsm, table, pooled, pdisposed, disposeCalled, aux>>

\* the user function is invoked: by the deferred callback (_runDeferred), or by
\* the microtask _dispatchWork scheduled. It may put a listener on ctx.signal.
FnStart(t, lk) ==
  /\ tasks[t].born
  /\ tasks[t].pc \in {"deferred", "dispatched"}
  /\ tasks' = [tasks EXCEPT ![t].pc = "executing",
                            ![t].invoked = @ + 1,
                            ![t].onAbort = IF tasks[t].aborted THEN "none" ELSE lk]
  /\ last' = "ok"
  /\ UNCHANGED <<fsm, table, pooled, poolVars, disposeCalled, aux>>

\* the promise the user function returned settles
FnSettle(t, how) ==
  /\ tasks[t].born
  /\ tasks[t].pc = "executing"
  /\ tasks' = [tasks EXCEPT ![t].pc = IF how = "return" THEN "returned" ELSE "threw"]
  /\ last' = "ok"
  /\ UNCHANGED <<fsm, table, pooled, poolVars, disposeCalled, aux>>

\* Task.run resumes after its await
RunContinue(t) ==
  /\ tasks[t].born
  /\ tasks[t].pc \in {"returned", "threw", "refused"}
  /\ tasks' = [tasks EXCEPT ![t] =
                 RunFinalize(@, IF tasks[t].pc = "returned" THEN "return" ELSE "throw")]
  /\ last' = "ok"
  /\ UNCHANGED <<fsm, table, pooled, poolVars, disposeCalled, aux>>

TaskAbort(t) ==
  /\ tasks[t].born
  /\ tasks' = [tasks EXCEPT ![t] = AbortTask(@)]
  /\ last' = "ok"
  /\ UNCHANGED <<fsm, table, pooled, poolVars, disposeCalled, aux>>

TaskEffect(t) ==
  /\ tasks[t].born
  /\ IF ~IsActive(tasks[t])
     THEN last' = "notActive" ELSE last' = "effect"
  /\ UNCHANGED <<fsm, table, tasks, pooled, poolVars, disposeCalled, aux>>

\* ctx is handed to the user function when it is invoked, and may be kept
HasCtx(T) == T.invoked > 0

SpawnWorker(t, lk) ==
  /\ tasks[t].born
  /\ HasCtx(tasks[t])
  /\ IF ~IsActive(tasks[t])
     THEN last' = "notActive" /\ UNCHANGED tasks
     ELSE /\ Len(tasks[t].workers) < MaxWorkers
          /\ tasks' = [tasks EXCEPT ![t] = SpawnWorkerIn(@, lk)]
          /\ last' = "ok"
  /\ UNCHANGED <<fsm, table, pooled, poolVars, disposeCalled, aux>>

AddHandler(t) ==
  /\ tasks[t].born
  /\ HasCtx(tasks[t])
  /\ IF ~IsActive(tasks[t])
     THEN last' = "notActive" /\ UNCHANGED tasks
     ELSE /\ Len(tasks[t].handlers) < MaxHandlers
          /\ tasks' = [tasks EXCEPT ![t] = AddHandlerIn(@)]
          /\ last' = "ok"
  /\ UNCHANGED <<fsm, table, pooled, poolVars, disposeCalled, aux>>

CreateStream(t) ==
  /\ tasks[t].born
  /\ HasCtx(tasks[t])
  /\ IF ~IsActive(tasks[t])
     THEN last' = "notActive" /\ UNCHANGED tasks
     ELSE /\ Len(tasks[t].streams) < MaxStreams
          /\ tasks' = [tasks EXCEPT ![t] = CreateStreamIn(@)]
          /\ last' = "ok"
  /\ UNCHANGED <<fsm, table, pooled, poolVars, disposeCalled, aux>>

\* ------------------------------------------------------------- owned units
\* WorkerHandle.terminate()
WorkerTerminate(t, i) ==
  /\ tasks[t].born
  /\ i \in DOMAIN tasks[t].workers
  /\ tasks' = [tasks EXCEPT ![t] = TerminateWorker(@, i)]
  /\ last' = "ok"
  /\ UNCHANGED <<fsm, table, pooled, poolVars, disposeCalled, aux>>

\* the worker function settles and Worker.start resumes
WorkerSettle(t, i, how) ==
  /\ tasks[t].born
  /\ i \in DOMAIN tasks[t].workers
  /\ tasks[t].workers[i].fnLive
  /\ tasks' = [tasks EXCEPT ![t].workers[i] = WorkerAfterFn(@, how)]
  /\ last' = "ok"
  /\ UNCHANGED <<fsm, table, pooled, poolVars, disposeCalled, aux>>

\* HandlerHandle.execute() up to its await
HandlerExecute(t, i) ==
  /\ tasks[t].born
  /\ i \in DOMAIN tasks[t].handlers
  /\ IF tasks[t].handlers[i].status # "pending"
     THEN last' = "handlerNotPending" /\ UNCHANGED tasks
     ELSE IF tasks[t].handlers[i].cancelled
     THEN /\ last' = "handlerCancelled"
          /\ tasks' = [tasks EXCEPT ![t].handlers[i].status = "cancelled"]
     ELSE /\ last' = "ok"
          /\ tasks' = [tasks EXCEPT ![t].handlers[i].status = "running"]
  /\ UNCHANGED <<fsm, table, pooled, poolVars, disposeCalled, aux>>

HandlerSettle(t, i, how) ==
  /\ tasks[t].born
  /\ i \in DOMAIN tasks[t].handlers
  /\ tasks[t].handlers[i].status = "running"
  /\ tasks' = [tasks EXCEPT ![t].handlers[i] = HandlerAfterFn(@, how)]
  /\ last' = "ok"
  /\ UNCHANGED <<fsm, table, pooled, poolVars, disposeCalled, aux>>

\* HandlerHandle.cancel()
HandlerCancel(t, i) ==
  /\ tasks[t].born
  /\ i \in DOMAIN tasks[t].handlers
  /\ tasks' = [tasks EXCEPT ![t].handlers[i] = HandlerCancelled(@)]
  /\ last' = "ok"
  /\ UNCHANGED <<fsm, table, pooled, poolVars, disposeCalled, aux>>

\* StreamHandle.abort()
StreamAbort(t, i) ==
  /\ tasks[t].born
  /\ i \in DOMAIN tasks[t].streams
  /\ tasks' = [tasks EXCEPT ![t].streams[i] = StreamAborted(@)]
  /\ last' = "ok"
  /\ UNCHANGED <<fsm, table, pooled, poolVars, disposeCalled, aux>>

\* ------------------------------------------------------------- WorkerPool
FnSettled(T) == T.pc \in {"returned", "threw", "finalized", "done"}

\* the finally step of _dispatchWork, after the work of worker i settled
PoolFinally(i) ==
  /\ i \in DOMAIN pworkers
  /\ pworkers[i].state = "busy"
  /\ FnSettled(tasks[pworkers[i].work])
  /\ IF pdisposed
     THEN UNCHANGED <<pworkers, queue, tasks>>
     ELSE LET pq == ProcessQueue([pworkers EXCEPT ![i] = [state |-> "idle", work |-> 0]],
                                 queue)
          IN /\ pworkers' = pq.pw
             /\ queue' = pq.q
             /\ tasks' = IF pq.work = 0 THEN tasks
                         ELSE [tasks EXCEPT ![pq.work].pc = "dispatched"]
  /\ last' = "ok"
  /\ UNCHANGED <<fsm, table, pooled, pdisposed, disposeCalled, aux>>

\* ------------------------------------------------------------------- Next
\* The kernel: one Scope, created with the Authority's pool or without a pool,
\* the Tasks it creates and their runs.
Next ==
  \/ Mount
  \/ Suspend
  \/ Resume
  \/ Dispose
  \/ \E ref \in ExplicitRefs \cup {NoRef} : CreateTask(ref)
  \/ \E d \in BOOLEAN : ScopeRun(d, "none")
  \/ \E t \in TaskIds : ScopeRunFinally(t)
  \/ ScopeEffect
  \/ \E ref \in AllRefs : ScopeAbortTask(ref)
  \/ ScopeAbortAll
  \/ \E t \in TaskIds, d \in BOOLEAN : TaskRun(t, d, "none")
  \/ \E t \in TaskIds : FnStart(t, "none")
  \/ \E t \in TaskIds, how \in {"return", "throw"} : FnSettle(t, how)
  \/ \E t \in TaskIds : RunContinue(t)
  \/ \E t \in TaskIds : TaskAbort(t)
  \/ \E i \in 1..DefaultWorkers : PoolFinally(i)

Spec == Init /\ [][Next]_vars

\* One Task constructed on its own, without a pool (new Task(scopeId)), with everything
\* its user function can do through ctx.
InitTask ==
  /\ fsm = "INIT"
  /\ table = <<>>
  /\ tasks = [t \in TaskIds |-> IF t = 1 THEN NewTask(GeneratedRef(1), FALSE) ELSE Unborn]
  /\ pooled = FALSE
  /\ pworkers = <<>>
  /\ queue = <<>>
  /\ pdisposed = FALSE
  /\ disposeCalled = FALSE
  /\ fsmlog = <<>>
  /\ pmax = 0
  /\ works = <<>>
  /\ stream = <<>>
  /\ auth = <<>>
  /\ units = <<>>
  /\ sbuf = <<>>
  /\ multi = <<>>
  /\ last = "ok"

MaxOwned == 2 * MaxWorkers + MaxHandlers + MaxStreams + 1

NextTask ==
  \/ \E t \in TaskIds, d \in BOOLEAN, lk \in ListenerKinds : TaskRun(t, d, lk)
  \/ \E t \in TaskIds, lk \in ListenerKinds : FnStart(t, lk)
  \/ \E t \in TaskIds, how \in {"return", "throw"} : FnSettle(t, how)
  \/ \E t \in TaskIds : RunContinue(t)
  \/ \E t \in TaskIds : TaskAbort(t)
  \/ \E t \in TaskIds : TaskEffect(t)
  \/ \E t \in TaskIds, lk \in ListenerKinds : SpawnWorker(t, lk)
  \/ \E t \in TaskIds : AddHandler(t)
  \/ \E t \in TaskIds : CreateStream(t)
  \/ \E t \in TaskIds, i \in 1..MaxOwned : WorkerTerminate(t, i)
  \/ \E t \in TaskIds, i \in 1..MaxOwned, how \in {"return", "throw"} : WorkerSettle(t, i, how)
  \/ \E t \in TaskIds, i \in 1..MaxOwned : HandlerExecute(t, i)
  \/ \E t \in TaskIds, i \in 1..MaxOwned, how \in {"return", "throw"} : HandlerSettle(t, i, how)
  \/ \E t \in TaskIds, i \in 1..MaxOwned : HandlerCancel(t, i)
  \/ \E t \in TaskIds, i \in 1..MaxOwned : StreamAbort(t, i)

SpecTask == InitTask /\ [][NextTask]_vars

\* A ScopeFSM constructed on its own and driven by transition() calls.
InitFSM ==
  /\ fsm = "INIT"
  /\ table = <<>>
  /\ tasks = [t \in TaskIds |-> Unborn]
  /\ pooled = FALSE
  /\ pworkers = <<>>
  /\ queue = <<>>
  /\ pdisposed = FALSE
  /\ disposeCalled = FALSE
  /\ fsmlog = <<>>
  /\ pmax = 0
  /\ works = <<>>
  /\ stream = <<>>
  /\ auth = <<>>
  /\ units = <<>>
  /\ sbuf = <<>>
  /\ multi = <<>>
  /\ last = "ok"

FsmTransition(e) ==
  /\ Len(fsmlog) < MaxCalls
  /\ fsm' = Transition(fsm, e)
  /\ last' = IF Returns(fsm, e) THEN "true" ELSE "false"
  /\ fsmlog' = Append(fsmlog, [from |-> fsm, event |-> e, to |-> Transition(fsm, e),
                               ret |-> Returns(fsm, e)])
  /\ UNCHANGED <<table, tasks, pooled, poolVars, disposeCalled, pmax, works, stream, auth,
               units, sbuf, multi>>

NextFSM == \E e \in FSMEvents : FsmTransition(e)

SpecFSM == InitFSM /\ [][NextFSM]_vars

\* ------------------------------------------------- WorkerPool driven directly
\* A WorkerPool constructed on its own with some {defaultWorkers, maxWorkers}
\* and given works through execute(). A work record holds where the work
\* stands (at), the promise execute() returned, how many times its function
\* was invoked, whether it was pushed on the queue, and its place in the order
\* of _dispatchWork calls (0: not dispatched).
NoWork ==
  [at |-> "none", promise |-> "none", invoked |-> 0, wasQueued |-> FALSE, dseq |-> 0]

scopeVars == <<fsm, table, tasks, pooled, disposeCalled, fsmlog, stream, auth,
               units, sbuf, multi>>

InitPool ==
  /\ fsm = "INIT"
  /\ table = <<>>
  /\ tasks = [t \in TaskIds |-> Unborn]
  /\ pooled = FALSE
  /\ \E dw \in 0..MaxConfig : pworkers = InitializeWorkers(<<>>, dw)
  /\ pmax \in 0..MaxConfig
  /\ queue = <<>>
  /\ pdisposed = FALSE
  /\ disposeCalled = FALSE
  /\ fsmlog = <<>>
  /\ works = [w \in WorkIds |-> NoWork]
  /\ stream = <<>>
  /\ auth = <<>>
  /\ units = <<>>
  /\ sbuf = <<>>
  /\ multi = <<>>
  /\ last = "ok"

Dispatched(ws) == {w \in WorkIds : ws[w].dseq > 0}

\* pool.execute(fn), the w-th call
PoolExecute(w) ==
  /\ works[w].at = "none"
  /\ \A v \in 1..(w - 1) : works[v].at # "none"
  /\ LET ex == Execute(pworkers, queue, pdisposed, w) IN
     /\ pworkers' = ex.pw
     /\ queue' = ex.q
     /\ works' = [works EXCEPT ![w] =
                    [at |-> ex.at,
                     promise |-> IF ex.at = "refused" THEN "rejected" ELSE "pending",
                     invoked |-> 0,
                     wasQueued |-> ex.at = "queued",
                     dseq |-> IF ex.at = "dispatched"
                              THEN Cardinality(Dispatched(works)) + 1 ELSE 0]]
  /\ last' = "ok"
  /\ UNCHANGED <<scopeVars, pmax, pdisposed>>

\* pool.scale(count)
PoolScale(count) ==
  /\ pworkers' = Scaled(pworkers, count, pmax, pdisposed)
  /\ last' = "ok"
  /\ UNCHANGED <<scopeVars, pmax, pdisposed, queue, works>>

\* pool.dispose()
PoolDispose ==
  /\ IF pdisposed THEN UNCHANGED <<pworkers, queue, works>>
     ELSE /\ works' = [w \in WorkIds |->
                         IF works[w].at = "queued"
                         THEN [works[w] EXCEPT !.at = "dropped", !.promise = "rejected"]
                         ELSE works[w]]
          /\ queue' = <<>>
          /\ pworkers' = <<>>
  /\ pdisposed' = TRUE
  /\ last' = "ok"
  /\ UNCHANGED <<scopeVars, pmax>>

\* the microtask _dispatchWork scheduled invokes work.fn(); microtasks run in
\* the order they were scheduled
WorkStart(w) ==
  /\ works[w].at = "dispatched"
  /\ \A v \in WorkIds : works[v].at = "dispatched" => works[w].dseq <= works[v].dseq
  /\ works' = [works EXCEPT ![w].at = "running", ![w].invoked = @ + 1]
  /\ last' = "ok"
  /\ UNCHANGED <<scopeVars, pmax, poolVars>>

\* work.fn() settled: work.resolve(result) or work.reject(error)
WorkSettle(w, how) ==
  /\ works[w].at = "running"
  /\ works' = [works EXCEPT ![w].at = "settled",
                            ![w].promise = IF how = "return" THEN "resolved" ELSE "rejected"]
  /\ last' = "ok"
  /\ UNCHANGED <<scopeVars, pmax, poolVars>>

\* mutant: the worker is released in a then step, which a rejection skips
WorkFinallyThen(w) ==
  /\ works[w].at = "settled"
  /\ IF pdisposed \/ works[w].promise = "rejected"
     THEN /\ works' = [works EXCEPT ![w].at = "done"]
          /\ UNCHANGED <<pworkers, queue>>
     ELSE LET i == CHOOSE j \in DOMAIN pworkers : pworkers[j].work = w
              pq == ProcessQueue([pworkers EXCEPT ![i] = [state |-> "idle", work |-> 0]],
                                 queue)
          IN /\ pworkers' = pq.pw
             /\ queue' = pq.q
             /\ works' = IF pq.work = 0 THEN [works EXCEPT ![w].at = "done"]
                         ELSE [works EXCEPT ![w].at = "done",
                                            ![pq.work].at = "dispatched",
                                            ![pq.work].dseq =
                                               Cardinality(Dispatched(works)) + 1]
  /\ last' = "ok"
  /\ UNCHANGED <<scopeVars, pmax, pdisposed>>

\* the finally step of _dispatchWork for work w
WorkFinally(w) ==
  /\ works[w].at = "settled"
  /\ IF pdisposed
     THEN /\ works' = [works EXCEPT ![w].at = "done"]
          /\ UNCHANGED <<pworkers, queue>>
     ELSE LET i == CHOOSE j \in DOMAIN pworkers : pworkers[j].work = w
              pq == ProcessQueue([pworkers EXCEPT ![i] = [state |-> "idle", work |-> 0]],
                                 queue)
          IN /\ pworkers' = pq.pw
             /\ queue' = pq.q
             /\ works' = IF pq.work = 0 THEN [works EXCEPT ![w].at = "done"]
                         ELSE [works EXCEPT ![w].at = "done",
                                            ![pq.work].at = "dispatched",
                                            ![pq.work].dseq =
                                               Cardinality(Dispatched(works)) + 1]
  /\ last' = "ok"
  /\ UNCHANGED <<scopeVars, pmax, pdisposed>>

NextPool ==
  \/ \E w \in WorkIds : PoolExecute(w)
  \/ \E k \in 0..MaxScale : PoolScale(k)
  \/ PoolDispose
  \/ \E w \in WorkIds : WorkStart(w)
  \/ \E w \in WorkIds, how \in {"return", "throw"} : WorkSettle(w, how)
  \/ \E w \in WorkIds : WorkFinally(w)

SpecPool == InitPool /\ [][NextPool]_vars

\* The microtasks that _dispatchWork scheduled run, and every function that
\* was invoked settles; calls of execute, scale and dispose may stop coming.
SpecPoolLive ==
  /\ SpecPool
  /\ WF_vars(\E w \in WorkIds : WorkStart(w))
  /\ WF_vars(\E w \in WorkIds, how \in {"return", "throw"} : WorkSettle(w, how))
  /\ WF_vars(\E w \in WorkIds : WorkFinally(w))

\* ----------------------------------------------------- Stream driven directly
\* A Stream with its subscriber functions. The k-th value emitted is k, so the
\* buffer is <<1, .., buflen>>. _subscribers is a Set: slots holds its entries
\* in insertion order, a deleted entry keeps its slot (live = FALSE) while a
\* call is running, so that a loop over the Set skips it and still visits the
\* entries added after it. Per subscriber function: state (new: never given
\* to subscribe, refused: given to a Stream that was not open), what it does
\* the first time it is called (react), the values it was called with (got),
\* the values emitted while it was in the Set (due), and whether it has
\* thrown (threw).
Subs == 1..MaxSubs

Reactions ==
  {"none", "throw", "emit", "subscribe", "unsubscribe", "leave", "close", "abort"}

\* the subscriber a reaction of s is aimed at
Other(s) == (s % MaxSubs) + 1

NewStreamObj ==
  [status |-> "open", slots |-> <<>>, buflen |-> 0, exc |-> FALSE,
   sub |-> [s \in Subs |-> [state |-> "new", react |-> "none", got |-> <<>>, due |-> <<>>,
                            threw |-> FALSE]]]

InSet(St, s) == \E i \in DOMAIN St.slots : St.slots[i].id = s /\ St.slots[i].live

\* _subscribers.add(fn)
SetAdd(St, s) ==
  IF InSet(St, s) THEN St
  ELSE [St EXCEPT !.slots = Append(@, [id |-> s, live |-> TRUE]), !.sub[s].state = "live"]

\* _subscribers.delete(fn): the function subscribe() returned
SetDelete(St, s) ==
  IF ~InSet(St, s) THEN St
  ELSE [St EXCEPT !.slots = [i \in DOMAIN @ |->
                               IF @[i].id = s THEN [@[i] EXCEPT !.live = FALSE] ELSE @[i]],
                  !.sub[s].state = "gone"]

\* _subscribers.clear()
SetClear(St) ==
  [St EXCEPT !.slots = [i \in DOMAIN @ |-> [@[i] EXCEPT !.live = FALSE]],
             !.sub = [s \in Subs |->
                        IF InSet(St, s) THEN [@[s] EXCEPT !.state = "gone"] ELSE @[s]]]

\* Stream.close() and Stream.abort()
Closed(St) ==
  IF St.status # "open" THEN St ELSE SetClear([St EXCEPT !.status = "closed"])

Aborted(St) ==
  IF St.status # "open" THEN St ELSE SetClear([St EXCEPT !.status = "aborted"])

\* the catch block around a subscriber call
Caught(St) == [St EXCEPT !.exc = FALSE]

RECURSIVE Emitted(_)
RECURSIVE DeliverFrom(_, _, _)
RECURSIVE Subscribed(_, _, _)
RECURSIVE ReplayFrom(_, _, _)

\* subscriber s is called with v; what it does then it does on its first call
CallSubscriber(St, s, v) ==
  LET r == St.sub[s].react
      S1 == [St EXCEPT !.sub[s].got = Append(@, v), !.sub[s].react = "none"]
  IN CASE r = "throw"       -> [S1 EXCEPT !.exc = TRUE, !.sub[s].threw = TRUE]
       [] r = "emit"        -> IF S1.buflen < MaxBuf THEN Emitted(S1) ELSE S1
       [] r = "subscribe"   -> IF S1.sub[Other(s)].state = "new"
                               THEN Subscribed(S1, Other(s), "none") ELSE S1
       [] r = "unsubscribe" -> SetDelete(S1, Other(s))
       [] r = "leave"       -> SetDelete(S1, s)
       [] r = "close"       -> Closed(S1)
       [] r = "abort"       -> Aborted(S1)
       [] OTHER             -> S1

\* mutant: the loop of emit() without its try/catch
DeliverFromUncaught(St, v, i) ==
  IF i > Len(St.slots) THEN St
  ELSE IF ~St.slots[i].live THEN DeliverFrom(St, v, i + 1)
  ELSE LET S1 == CallSubscriber(St, St.slots[i].id, v)
       IN IF S1.exc THEN S1 ELSE DeliverFrom(S1, v, i + 1)

\* for (const subscriber of this._subscribers), from slot i on
DeliverFrom(St, v, i) ==
  IF i > Len(St.slots) THEN St
  ELSE IF ~St.slots[i].live THEN DeliverFrom(St, v, i + 1)
  ELSE DeliverFrom(Caught(CallSubscriber(St, St.slots[i].id, v)), v, i + 1)

\* mutant: emit() without its status guard
EmittedUnguarded(St) ==
  LET v == St.buflen + 1
      S1 == [St EXCEPT !.buflen = v,
                       !.sub = [s \in Subs |->
                                  IF InSet(St, s) THEN [@[s] EXCEPT !.due = Append(@, v)]
                                  ELSE @[s]]]
  IN DeliverFrom(S1, v, 1)

\* Stream.emit(value)
Emitted(St) ==
  IF St.status # "open" THEN St
  ELSE LET v == St.buflen + 1
           S1 == [St EXCEPT !.buflen = v,
                            !.sub = [s \in Subs |->
                                       IF InSet(St, s) THEN [@[s] EXCEPT !.due = Append(@, v)]
                                       ELSE @[s]]]
       IN DeliverFrom(S1, v, 1)

\* for (const value of this._buffer), from index j on: the loop reads the
\* length of the array at every step
ReplayFrom(St, s, j) ==
  IF j > St.buflen THEN St
  ELSE ReplayFrom(Caught(CallSubscriber(St, s, j)), s, j + 1)

\* Stream.subscribe(fn), fn being subscriber s with reaction r
Subscribed(St, s, r) ==
  IF St.status # "open" THEN [St EXCEPT !.sub[s].state = "refused"]
  ELSE ReplayFrom(SetAdd([St EXCEPT !.sub[s].react = r], s), s, 1)

\* between two calls no loop over the Set is running: deleted slots are dropped
Settled(St) ==
  [St EXCEPT !.slots = SelectSeq(@, LAMBDA e : e.live), !.exc = FALSE]

InitStream ==
  /\ fsm = "INIT"
  /\ table = <<>>
  /\ tasks = [t \in TaskIds |-> Unborn]
  /\ pooled = FALSE
  /\ pworkers = <<>>
  /\ queue = <<>>
  /\ pdisposed = FALSE
  /\ disposeCalled = FALSE
  /\ fsmlog = <<>>
  /\ pmax = 0
  /\ works = <<>>
  /\ stream = NewStreamObj
  /\ auth = <<>>
  /\ units = <<>>
  /\ sbuf = <<>>
  /\ multi = <<>>
  /\ last = "ok"

notStream == <<fsm, table, tasks, pooled, poolVars, disposeCalled, fsmlog, pmax, works, auth,
               units, sbuf, multi>>

\* stream.emit(value); last tells whether the call threw
StreamEmit ==
  /\ stream.buflen < MaxBuf
  /\ stream' = Settled(Emitted(stream))
  /\ last' = IF Emitted(stream).exc THEN "threw" ELSE "emit"
  /\ UNCHANGED notStream

\* stream.subscribe(fn) with a function not used before
StreamSubscribe(s, r) ==
  /\ stream.sub[s].state = "new"
  /\ \A u \in 1..(s - 1) : stream.sub[u].state # "new"
  /\ stream' = Settled(Subscribed(stream, s, r))
  /\ last' = IF Subscribed(stream, s, r).exc THEN "threw" ELSE "subscribe"
  /\ UNCHANGED notStream

\* the unsubscribe function that subscribe(fn) returned for s
StreamUnsubscribe(s) ==
  /\ stream.sub[s].state \in {"live", "gone"}
  /\ stream' = Settled(SetDelete(stream, s))
  /\ last' = "unsubscribe"
  /\ UNCHANGED notStream

StreamClose ==
  /\ stream' = Settled(Closed(stream))
  /\ last' = "close"
  /\ UNCHANGED notStream

StreamAbortCall ==
  /\ stream' = Settled(Aborted(stream))
  /\ last' = "abort"
  /\ UNCHANGED notStream

NextStream ==
  \/ StreamEmit
  \/ \E s \in Subs, r \in Reactions : StreamSubscribe(s, r)
  \/ \E s \in Subs : StreamUnsubscribe(s)
  \/ StreamClose
  \/ StreamAbortCall

SpecStream == InitStream /\ [][NextStream]_vars

\* ------------------------------------------------------------------ Authority
\* An Authority with its WorkerPool (pworkers, queue, pdisposed, pmax), its
\* registry _scopes and its listener table _listeners. objs holds every Scope
\* constructed by createScope, in order of construction: its id and the state
\* of its ScopeFSM; reg maps an id to the Scope registered under it (0: none).
\* These Scopes hold no tasks. keys is the set of channels the Map _listeners
\* has an entry for and chan[c] the Set of that entry, kept like the Set of a
\* Stream. react[l] is what listener function l does the next time it is
\* called. snapshot, invoked and fired describe the last broadcast: the
\* listeners in the Set of its channel when it was called, the listeners it
\* called, both in order, and what the called listeners did.
ScopeIds == 1..MaxScopeIds
Channels == 1..MaxChannels
Listeners == 1..MaxListeners

ListenerReactions == {"none", "throw", "subscribe", "unsubscribe"}

\* the listener a reaction of l is aimed at
Peer(l) == (l % MaxListeners) + 1

NewAuthority ==
  [disposed |-> FALSE, reg |-> [id \in ScopeIds |-> 0], objs |-> <<>>,
   keys |-> {}, chan |-> [c \in Channels |-> <<>>],
   react |-> [l \in Listeners |-> "none"],
   snapshot |-> <<>>, invoked |-> <<>>, fired |-> {}, exc |-> FALSE]

\* Scope.dispose() of a Scope with an empty TaskTable: the state of its FSM
ScopeDisposed(s) ==
  IF ~IsAlive(s) THEN s ELSE Transition(Transition(s, "dispose"), "dispose")

\* the Scopes in _scopes
RegisteredScopes(A) == {A.reg[id] : id \in ScopeIds} \ {0}

\* mutant: createScope() without the check for a registered id
CreatedScopeUnchecked(A, pw, max, pd, id, workers) ==
  IF A.disposed
  THEN [auth |-> A, pw |-> pw, threw |-> TRUE]
  ELSE [auth |-> [A EXCEPT !.objs = Append(@, [id |-> id, fsm |-> "INIT"]),
                           !.reg[id] = Len(A.objs) + 1],
        pw |-> IF workers # 0 /\ workers > Len(pw)
               THEN Scaled(pw, workers, max, pd) ELSE pw,
        threw |-> FALSE]

\* createScope({id, engine: {workers}}), workers = 0 when none is given: the
\* Authority and its pool after the call, and whether the call threw
CreatedScope(A, pw, max, pd, id, workers) ==
  IF A.disposed \/ A.reg[id] # 0
  THEN [auth |-> A, pw |-> pw, threw |-> TRUE]
  ELSE [auth |-> [A EXCEPT !.objs = Append(@, [id |-> id, fsm |-> "INIT"]),
                           !.reg[id] = Len(A.objs) + 1],
        pw |-> IF workers # 0 /\ workers > Len(pw)
               THEN Scaled(pw, workers, max, pd) ELSE pw,
        threw |-> FALSE]

Listening(A, c, l) ==
  \E i \in DOMAIN A.chan[c] : A.chan[c][i].id = l /\ A.chan[c][i].live

\* subscribe(channel, listener)
ListenerAdded(A, c, l) ==
  [A EXCEPT !.keys = @ \cup {c},
            !.chan[c] = IF Listening(A, c, l) THEN @
                        ELSE Append(@, [id |-> l, live |-> TRUE])]

\* the function subscribe(channel, listener) returned
ListenerDeleted(A, c, l) ==
  IF c \notin A.keys THEN A
  ELSE [A EXCEPT !.chan[c] = [i \in DOMAIN @ |->
                                IF @[i].id = l THEN [@[i] EXCEPT !.live = FALSE]
                                ELSE @[i]]]

\* listener l is called by a broadcast on channel c
CallListener(A, c, l) ==
  LET r == A.react[l]
      A1 == [A EXCEPT !.invoked = Append(@, l), !.fired = @ \cup {r},
                      !.react[l] = "none"]
  IN CASE r = "throw"       -> [A1 EXCEPT !.exc = TRUE]
       [] r = "subscribe"   -> ListenerAdded(A1, c, Peer(l))
       [] r = "unsubscribe" -> ListenerDeleted(A1, c, Peer(l))
       [] OTHER             -> A1

RECURSIVE BroadcastFrom(_, _, _)
\* for (const listener of listeners), from slot i on
BroadcastFrom(A, c, i) ==
  IF i > Len(A.chan[c]) THEN A
  ELSE IF ~A.chan[c][i].live THEN BroadcastFrom(A, c, i + 1)
  ELSE LET A1 == CallListener(A, c, A.chan[c][i].id)
       IN IF A1.exc THEN A1 ELSE BroadcastFrom(A1, c, i + 1)

\* the listeners in the Set of channel c, in insertion order
LiveListeners(A, c) ==
  LET live == SelectSeq(A.chan[c], LAMBDA e : e.live)
  IN [i \in DOMAIN live |-> live[i].id]

\* broadcast(channel, data)
Broadcasted(A, c) ==
  LET A1 == [A EXCEPT !.snapshot = LiveListeners(A, c), !.invoked = <<>>, !.fired = {}]
  IN IF c \notin A.keys THEN A1 ELSE BroadcastFrom(A1, c, 1)

\* Authority.dispose(): the Authority after the call
AuthorityDisposed(A) ==
  IF A.disposed THEN A
  ELSE [A EXCEPT !.disposed = TRUE,
                 !.objs = [o \in DOMAIN @ |->
                             IF o \in RegisteredScopes(A)
                             THEN [@[o] EXCEPT !.fsm = ScopeDisposed(@)] ELSE @[o]],
                 !.reg = [id \in ScopeIds |-> 0],
                 !.keys = {},
                 !.chan = [c \in Channels |-> <<>>]]

\* between two calls no loop over a Set is running: deleted slots are dropped
AuthSettled(A) ==
  [A EXCEPT !.chan = [c \in Channels |-> SelectSeq(@[c], LAMBDA e : e.live)],
            !.exc = FALSE]

notAuth == <<fsm, table, tasks, pooled, disposeCalled, fsmlog, works, stream,
             units, sbuf, multi>>

InitAuth ==
  /\ fsm = "INIT"
  /\ table = <<>>
  /\ tasks = [t \in TaskIds |-> Unborn]
  /\ pooled = FALSE
  /\ \E dw \in 0..MaxConfig : pworkers = InitializeWorkers(<<>>, dw)
  /\ pmax \in 0..MaxConfig
  /\ queue = <<>>
  /\ pdisposed = FALSE
  /\ disposeCalled = FALSE
  /\ fsmlog = <<>>
  /\ works = <<>>
  /\ stream = <<>>
  /\ auth = NewAuthority
  /\ units = <<>>
  /\ sbuf = <<>>
  /\ multi = <<>>
  /\ last = "ok"

\* authority.createScope({id, engine: {workers}})
AuthCreateScope(id, workers) ==
  LET cs == CreatedScope(auth, pworkers, pmax, pdisposed, id, workers) IN
  /\ cs.threw \/ Len(auth.objs) < MaxScopes
  /\ auth' = cs.auth
  /\ pworkers' = cs.pw
  /\ last' = IF cs.threw THEN "threw" ELSE "created"
  /\ UNCHANGED <<notAuth, pmax, queue, pdisposed>>

\* authority.unregisterScope(id); last is the value returned
AuthUnregisterScope(id) ==
  /\ auth' = [auth EXCEPT !.reg[id] = 0]
  /\ last' = IF auth.reg[id] # 0 THEN "true" ELSE "false"
  /\ UNCHANGED <<notAuth, poolVars, pmax>>

\* mount() of the o-th Scope the Authority constructed
AuthScopeMount(o) ==
  /\ o \in DOMAIN auth.objs
  /\ auth' = [auth EXCEPT !.objs[o].fsm = Transition(@, "mounted")]
  /\ last' = "ok"
  /\ UNCHANGED <<notAuth, poolVars, pmax>>

\* dispose() of the o-th Scope the Authority constructed
AuthScopeDispose(o) ==
  /\ o \in DOMAIN auth.objs
  /\ auth' = [auth EXCEPT !.objs[o].fsm = ScopeDisposed(@)]
  /\ last' = "ok"
  /\ UNCHANGED <<notAuth, poolVars, pmax>>

\* authority.subscribe(channel, listener), the listener reacting with r when
\* it is next called
AuthSubscribe(c, l, r) ==
  /\ auth' = ListenerAdded([auth EXCEPT !.react[l] = r], c, l)
  /\ last' = "subscribe"
  /\ UNCHANGED <<notAuth, poolVars, pmax>>

\* the unsubscribe function that subscribe(channel, listener) returned
AuthUnsubscribe(c, l) ==
  /\ auth' = AuthSettled(ListenerDeleted(auth, c, l))
  /\ last' = "unsubscribe"
  /\ UNCHANGED <<notAuth, poolVars, pmax>>

\* authority.broadcast(channel, data); last tells whether the call threw
AuthBroadcast(c) ==
  /\ auth' = AuthSettled(Broadcasted(auth, c))
  /\ last' = IF Broadcasted(auth, c).exc THEN "threw" ELSE "broadcast"
  /\ UNCHANGED <<notAuth, poolVars, pmax>>

\* authority.dispose(), with the dispose() of its WorkerPool, whose queue is
\* empty
AuthDispose ==
  /\ auth' = AuthorityDisposed(auth)
  /\ IF auth.disposed THEN UNCHANGED poolVars
     ELSE pworkers' = <<>> /\ queue' = <<>> /\ pdisposed' = TRUE
  /\ last' = "disposed"
  /\ UNCHANGED <<notAuth, pmax>>

\* scope registry and lifecycle of an Authority
NextAuth ==
  \/ \E id \in ScopeIds, workers \in 0..MaxScale : AuthCreateScope(id, workers)
  \/ \E id \in ScopeIds : AuthUnregisterScope(id)
  \/ \E o \in 1..MaxScopes : AuthScopeMount(o)
  \/ \E o \in 1..MaxScopes : AuthScopeDispose(o)
  \/ \E c \in Channels : AuthSubscribe(c, 1, "none")
  \/ AuthDispose

SpecAuth == InitAuth /\ [][NextAuth]_vars

\* the mediator of an Authority constructed with its default engine config
InitBus ==
  /\ InitAuth
  /\ Len(pworkers) = DefaultWorkers
  /\ pmax = MaxConfig

NextBus ==
  \/ \E c \in Channels, l \in Listeners, r \in ListenerReactions : AuthSubscribe(c, l, r)
  \/ \E c \in Channels, l \in Listeners : AuthUnsubscribe(c, l)
  \/ \E c \in Channels : AuthBroadcast(c)
  \/ AuthDispose

SpecBus == InitBus /\ [][NextBus]_vars

\* -------------------------------------------- Worker and Handler driven directly
\* Worker and Handler objects constructed on their own. A Worker holds its
\* status, whether its signal is aborted, whether its function is in flight
\* (fnLive), how often the function was invoked, and the promise of the
\* start() call that invoked it. A Handler holds its status, its cancel flag,
\* whether setFunction was called (hasFn), how often the function was invoked,
\* the promise of the execute() call that invoked it, and whether cancel() was
\* called while it was pending or while it was running (history).
UnitIds == 1..MaxUnits

NewWorkerObj ==
  [status |-> "idle", aborted |-> FALSE, fnLive |-> FALSE, invoked |-> 0,
   promise |-> "none"]

NewHandlerObj ==
  [status |-> "pending", cancelled |-> FALSE, hasFn |-> FALSE, invoked |-> 0,
   promise |-> "none", cancelledPending |-> FALSE, cancelledRunning |-> FALSE]

\* Worker.terminate()
WorkerTerminated(w) ==
  IF ~WorkerIsActive(w) THEN w
  ELSE [w EXCEPT !.aborted = TRUE, !.status = "terminated"]

\* the promise of the start() call once the worker function settled
StartPromise(w, how) ==
  IF how = "return" \/ w.aborted THEN "resolved" ELSE "rejected"

\* the promise of the execute() call once the handler function settled
ExecutePromise(h, how) ==
  IF how = "return" \/ h.cancelled THEN "resolved" ELSE "rejected"

notUnits == <<fsm, table, tasks, pooled, poolVars, disposeCalled, fsmlog, pmax, works,
              stream, auth, sbuf, multi>>

InitUnits ==
  /\ fsm = "INIT"
  /\ table = <<>>
  /\ tasks = [t \in TaskIds |-> Unborn]
  /\ pooled = FALSE
  /\ pworkers = <<>>
  /\ queue = <<>>
  /\ pdisposed = FALSE
  /\ disposeCalled = FALSE
  /\ fsmlog = <<>>
  /\ pmax = 0
  /\ works = <<>>
  /\ stream = <<>>
  /\ auth = <<>>
  /\ units = [workers |-> [i \in UnitIds |-> NewWorkerObj],
              handlers |-> [i \in UnitIds |-> NewHandlerObj]]
  /\ sbuf = <<>>
  /\ multi = <<>>
  /\ last = "ok"

\* worker.start(fn) up to its await: fn is invoked synchronously
UnitWorkerStart(i) ==
  /\ IF units.workers[i].status # "idle"
     THEN last' = "rejected" /\ UNCHANGED units
     ELSE /\ units' = [units EXCEPT !.workers[i].status = "running",
                                    !.workers[i].fnLive = TRUE,
                                    !.workers[i].invoked = @ + 1,
                                    !.workers[i].promise = "pending"]
          /\ last' = "ok"
  /\ UNCHANGED notUnits

\* the worker function settles and Worker.start resumes
UnitWorkerSettle(i, how) ==
  /\ units.workers[i].fnLive
  /\ units' = [units EXCEPT !.workers[i] =
                 [WorkerAfterFn(@, how) EXCEPT
                    !.promise = StartPromise(units.workers[i], how)]]
  /\ last' = "ok"
  /\ UNCHANGED notUnits

\* worker.terminate()
UnitWorkerTerminate(i) ==
  /\ units' = [units EXCEPT !.workers[i] = WorkerTerminated(@)]
  /\ last' = "ok"
  /\ UNCHANGED notUnits

\* handler.setFunction(fn)
UnitHandlerSetFunction(i) ==
  /\ IF units.handlers[i].hasFn
     THEN last' = "threw" /\ UNCHANGED units
     ELSE units' = [units EXCEPT !.handlers[i].hasFn = TRUE] /\ last' = "ok"
  /\ UNCHANGED notUnits

\* handler.execute() up to its await
UnitHandlerExecute(i) ==
  LET h == units.handlers[i] IN
  /\ IF h.status # "pending" \/ ~h.hasFn
     THEN last' = "rejected" /\ UNCHANGED units
     ELSE IF h.cancelled
     THEN /\ last' = "rejected"
          /\ units' = [units EXCEPT !.handlers[i].status = "cancelled"]
     ELSE /\ last' = "ok"
          /\ units' = [units EXCEPT !.handlers[i].status = "running",
                                    !.handlers[i].invoked = @ + 1,
                                    !.handlers[i].promise = "pending"]
  /\ UNCHANGED notUnits

\* the handler function settles and Handler.execute resumes
UnitHandlerSettle(i, how) ==
  /\ units.handlers[i].status = "running"
  /\ units' = [units EXCEPT !.handlers[i] =
                 [HandlerAfterFn(@, how) EXCEPT
                    !.promise = ExecutePromise(units.handlers[i], how)]]
  /\ last' = "ok"
  /\ UNCHANGED notUnits

\* handler.cancel()
UnitHandlerCancel(i) ==
  LET h == units.handlers[i] IN
  /\ units' = [units EXCEPT !.handlers[i] =
                 [HandlerCancelled(h) EXCEPT
                    !.cancelledPending = @ \/ h.status = "pending",
                    !.cancelledRunning = @ \/ h.status = "running"]]
  /\ last' = "ok"
  /\ UNCHANGED notUnits

NextUnits ==
  \/ \E i \in UnitIds : UnitWorkerStart(i)
  \/ \E i \in UnitIds, how \in {"return", "throw"} : UnitWorkerSettle(i, how)
  \/ \E i \in UnitIds : UnitWorkerTerminate(i)
  \/ \E i \in UnitIds : UnitHandlerSetFunction(i)
  \/ \E i \in UnitIds : UnitHandlerExecute(i)
  \/ \E i \in UnitIds, how \in {"return", "throw"} : UnitHandlerSettle(i, how)
  \/ \E i \in UnitIds : UnitHandlerCancel(i)

SpecUnits == InitUnits /\ [][NextUnits]_vars

\* ----------------------------------------------------------------- StreamBuffer
\* A StreamBuffer constructed with some highWaterMark, which the constructor
\* takes as it is given (mark): its chunks, its closed flag, the value the
\* last push returned (ret) and the chunks the last getChunks or drain
\* returned (out).
Marks == (0 - 1)..MaxMark
Chunks == 1..MaxChunk

NewStreamBuffer(mark) ==
  [chunks |-> <<>>, mark |-> mark, closed |-> FALSE, ret |-> FALSE, out |-> <<>>]

\* mutant: push() refuses only above the high water mark
PushedPastMark(B, c) ==
  IF B.closed THEN [B EXCEPT !.ret = FALSE]
  ELSE IF Len(B.chunks) > B.mark THEN [B EXCEPT !.ret = FALSE]
  ELSE [B EXCEPT !.chunks = Append(@, c), !.ret = TRUE]

\* push(chunk)
Pushed(B, c) ==
  IF B.closed THEN [B EXCEPT !.ret = FALSE]
  ELSE IF Len(B.chunks) >= B.mark THEN [B EXCEPT !.ret = FALSE]
  ELSE [B EXCEPT !.chunks = Append(@, c), !.ret = TRUE]

\* close()
BufferClosed(B) == [B EXCEPT !.closed = TRUE]

\* getChunks()
GotChunks(B) == [B EXCEPT !.out = B.chunks]

\* drain()
Drained(B) == [B EXCEPT !.chunks = <<>>, !.out = B.chunks]

\* clear()
Cleared(B) == [B EXCEPT !.chunks = <<>>]

notBuffer == <<fsm, table, tasks, pooled, poolVars, disposeCalled, fsmlog, pmax, works,
               stream, auth, units, multi>>

InitBuffer ==
  /\ fsm = "INIT"
  /\ table = <<>>
  /\ tasks = [t \in TaskIds |-> Unborn]
  /\ pooled = FALSE
  /\ pworkers = <<>>
  /\ queue = <<>>
  /\ pdisposed = FALSE
  /\ disposeCalled = FALSE
  /\ fsmlog = <<>>
  /\ pmax = 0
  /\ works = <<>>
  /\ stream = <<>>
  /\ auth = <<>>
  /\ units = <<>>
  /\ \E mark \in Marks : sbuf = NewStreamBuffer(mark)
  /\ multi = <<>>
  /\ last = "ok"

BufferPush(c) ==
  /\ sbuf' = Pushed(sbuf, c)
  /\ last' = "push"
  /\ UNCHANGED notBuffer

BufferClose ==
  /\ sbuf' = BufferClosed(sbuf)
  /\ last' = "close"
  /\ UNCHANGED notBuffer

BufferGetChunks ==
  /\ sbuf' = GotChunks(sbuf)
  /\ last' = "getChunks"
  /\ UNCHANGED notBuffer

BufferDrain ==
  /\ sbuf' = Drained(sbuf)
  /\ last' = "drain"
  /\ UNCHANGED notBuffer

BufferClear ==
  /\ sbuf' = Cleared(sbuf)
  /\ last' = "clear"
  /\ UNCHANGED notBuffer

NextBuffer ==
  \/ \E c \in Chunks : BufferPush(c)
  \/ BufferClose
  \/ BufferGetChunks
  \/ BufferDrain
  \/ BufferClear

SpecBuffer == InitBuffer /\ [][NextBuffer]_vars

\* ------------------------------------------------------- every object at once
\* The objects above side by side: a behaviour constructs one of them (a Scope
\* with its pool, a standalone Task, a WorkerPool, a Stream, an Authority, or
\* Workers and Handlers) and drives it with its own operations.
Present(x) == DOMAIN x # {}

\* Scope.dispose(): the FSM and the Tasks after the call
DisposedScope(f, ts, tb) ==
  IF ~IsAlive(f) THEN [fsm |-> f, tasks |-> ts]
  ELSE [fsm |-> Transition(Transition(f, "dispose"), "dispose"),
        tasks |-> AbortAll(ts, tb)]

\* mutant: WorkerPool.dispose() that doubles its workers and stays usable
DisposedPoolKeepsWorkers(pw, q, pd) ==
  IF pd THEN [pw |-> pw, q |-> q, pd |-> pd]
  ELSE [pw |-> pw \o pw, q |-> <<>>, pd |-> FALSE]

\* WorkerPool.dispose(): the workers, the queue and the flag after the call
DisposedPool(pw, q, pd) ==
  IF pd THEN [pw |-> pw, q |-> q, pd |-> pd]
  ELSE [pw |-> <<>>, q |-> <<>>, pd |-> TRUE]

\* Authority.dispose(): the Authority and its pool after the call
DisposedAuthority(A, pw, q, pd) ==
  IF A.disposed THEN [auth |-> A, pool |-> [pw |-> pw, q |-> q, pd |-> pd]]
  ELSE [auth |-> AuthorityDisposed(A), pool |-> DisposedPool(pw, q, pd)]

InitAll ==
  \/ Init
  \/ InitTask
  \/ InitPool
  \/ InitStream
  \/ InitAuth
  \/ InitUnits

NextAll ==
  \/ Present(stream) /\ NextStream
  \/ Present(auth) /\ NextAuth
  \/ Present(units) /\ NextUnits
  \/ Present(works) /\ NextPool
  \/ ~Present(stream) /\ ~Present(auth) /\ ~Present(units) /\ ~Present(works)
       /\ IF fsm = "INIT" /\ tasks[1].born THEN NextTask ELSE Next

SpecAll == InitAll /\ [][NextAll]_vars

\* ---------------------------------------------------- Scopes side by side
\* NumScopes Scopes created through one Authority, all given its WorkerPool.
\* Each Scope has its own ScopeFSM and its own TaskTable (multi.scopes[k]); the
\* Task objects are in tasks, owner[t] is the Scope whose createTask
\* constructed Task t (0: none). The steps of the Tasks and of the pool are
\* those of the kernel.
ScopeNos == 1..NumScopes

notMulti == <<fsm, table, disposeCalled, fsmlog, pmax, works, stream, auth, units, sbuf>>

InitMulti ==
  /\ fsm = "INIT"
  /\ table = <<>>
  /\ tasks = [t \in TaskIds |-> Unborn]
  /\ pooled = TRUE
  /\ pworkers = InitializeWorkers(<<>>, DefaultWorkers)
  /\ queue = <<>>
  /\ pdisposed = FALSE
  /\ disposeCalled = FALSE
  /\ fsmlog = <<>>
  /\ pmax = DefaultWorkers
  /\ works = <<>>
  /\ stream = <<>>
  /\ auth = <<>>
  /\ units = <<>>
  /\ sbuf = <<>>
  /\ multi = [scopes |-> [k \in ScopeNos |-> [fsm |-> "INIT", table |-> <<>>]],
              owner |-> [t \in TaskIds |-> 0]]
  /\ last = "ok"

\* mount(), suspend(), resume() of Scope k
MultiTransition(k, e) ==
  /\ e \in {"mounted", "suspend", "resume"}
  /\ multi' = [multi EXCEPT !.scopes[k].fsm = Transition(@, e)]
  /\ last' = e
  /\ UNCHANGED <<notMulti, tasks, pooled, poolVars>>

\* dispose() of Scope k
MultiDispose(k) ==
  LET sc == multi.scopes[k]
      ds == DisposedScope(sc.fsm, tasks, sc.table)
  IN /\ multi' = [multi EXCEPT !.scopes[k].fsm = ds.fsm]
     /\ tasks' = ds.tasks
     /\ last' = "dispose"
     /\ UNCHANGED <<notMulti, pooled, poolVars>>

\* createTask(ref) of Scope k
MultiCreateTask(k, ref) ==
  LET sc == multi.scopes[k] IN
  IF ~IsAlive(sc.fsm)
  THEN last' = "disposed" /\ UNCHANGED <<notMulti, multi, tasks, pooled, poolVars>>
  ELSE IF ~CanExecute(sc.fsm)
  THEN last' = "notReady" /\ UNCHANGED <<notMulti, multi, tasks, pooled, poolVars>>
  ELSE /\ NextId # 0
       /\ LET r == IF ref = NoRef THEN GeneratedRef(NextId) ELSE ref IN
          /\ tasks' = [tasks EXCEPT ![NextId] = NewTask(r, FALSE)]
          /\ multi' = [multi EXCEPT
                         !.scopes[k].table = Register(@, r, NextId),
                         !.scopes[k].fsm =
                            IF @ = "ATTACHED" THEN Transition(@, "taskStarted") ELSE @,
                         !.owner[NextId] = k]
       /\ last' = "created"
       /\ UNCHANGED <<notMulti, pooled, poolVars>>

\* abortTask(ref) of Scope k; last is the value it returns
MultiAbortTask(k, ref) ==
  LET tb == multi.scopes[k].table IN
  /\ IF RefIndex(tb, ref) # 0
     THEN /\ tasks' = [tasks EXCEPT ![tb[RefIndex(tb, ref)].task] = AbortTask(@)]
          /\ multi' = [multi EXCEPT !.scopes[k].table = Unregister(@, ref)]
          /\ last' = "true"
     ELSE UNCHANGED <<tasks, multi>> /\ last' = "false"
  /\ UNCHANGED <<notMulti, pooled, poolVars>>

\* abortAll() of Scope k
MultiAbortAll(k) ==
  /\ tasks' = AbortAll(tasks, multi.scopes[k].table)
  /\ last' = "abortAll"
  /\ UNCHANGED <<notMulti, multi, pooled, poolVars>>

NextMulti ==
  \/ \E k \in ScopeNos, e \in {"mounted", "suspend", "resume"} : MultiTransition(k, e)
  \/ \E k \in ScopeNos : MultiDispose(k)
  \/ \E k \in ScopeNos, ref \in ExplicitRefs \cup {NoRef} : MultiCreateTask(k, ref)
  \/ \E k \in ScopeNos, ref \in AllRefs : MultiAbortTask(k, ref)
  \/ \E k \in ScopeNos : MultiAbortAll(k)
  \/ \E t \in TaskIds : TaskRun(t, FALSE, "none")
  \/ \E t \in TaskIds : FnStart(t, "none")
  \/ \E t \in TaskIds : FnSettle(t, "return")
  \/ \E t \in TaskIds : RunContinue(t)
  \/ \E i \in 1..DefaultWorkers : PoolFinally(i)

SpecMulti == InitMulti /\ [][NextMulti]_vars

\* ====================================================================== claims

\* C1: when scope.dispose() returns, every Task ever constructed by the Scope
\* (all of them were registered by createTask) is not active and has its
\* signal aborted.
C1_DisposeTearsDownEveryTask ==
  [][Dispose => \A t \in TaskIds :
                  tasks'[t].born => ~IsActive(tasks'[t]) /\ tasks'[t].aborted]_vars

\* C2: a user function is never invoked once its Task's signal is aborted or
\* its Scope has left the alive states.
C2_NoStartAfterAbortOrDispose ==
  [][\A t \in TaskIds :
       tasks[t].born /\ tasks'[t].invoked > tasks[t].invoked
         => ~tasks[t].aborted /\ IsAlive(fsm)]_vars

\* C3: once dispose() has been called the Scope is DISPOSED and not alive,
\* whatever state it was called in.
C3_DisposeReachesDisposed ==
  disposeCalled => fsm = "DISPOSED" /\ ~IsAlive(fsm)

\* C4: a step that takes an active Task to status aborted leaves its signal
\* aborted and outcome aborted, every owned worker out of idle/running (those
\* that were active, and those created by abort listeners during the cascade,
\* terminated with their own signal aborted), every handler that had not
\* started cancelled, and no stream open.
AbortedClean(T, U) ==
  /\ U.aborted /\ U.outcome = "aborted"
  /\ \A i \in DOMAIN U.workers :
       /\ U.workers[i].status \notin {"idle", "running"}
       /\ (i \notin DOMAIN T.workers \/ T.workers[i].status \in {"idle", "running"})
            => U.workers[i].aborted /\ U.workers[i].status = "terminated"
  /\ \A i \in DOMAIN U.handlers :
       (i \notin DOMAIN T.handlers \/ T.handlers[i].status = "pending")
         => U.handlers[i].status = "cancelled"
  /\ \A i \in DOMAIN U.streams : U.streams[i].status # "open"

C4_AbortCascade ==
  [][\A t \in TaskIds :
       (tasks[t].born /\ tasks[t].status \in {"pending", "running"}
          /\ tasks'[t].status = "aborted")
         => AbortedClean(tasks[t], tasks'[t])]_vars

\* an aborted Task whose own abort listener and whose worker's abort listener
\* both created units while the cascade ran
C4_Witness ==
  \E t \in TaskIds :
    /\ tasks[t].born /\ tasks[t].status = "aborted" /\ tasks[t].onAbort = "spawn"
    /\ Len(tasks[t].workers) = 2 * MaxWorkers + 1
    /\ \A i \in DOMAIN tasks[t].workers : tasks[t].workers[i].status = "terminated"
    /\ \E i \in DOMAIN tasks[t].workers : tasks[t].workers[i].onAbort = "spawn"
    /\ Len(tasks[t].streams) > MaxStreams

\* C5: a Task whose status is terminal owns no idle or running worker and no
\* open stream.
C5_NoUnitOutlivesTask ==
  \A t \in TaskIds :
    (tasks[t].born /\ tasks[t].status \in Terminal) =>
      /\ \A i \in DOMAIN tasks[t].workers :
           tasks[t].workers[i].status \notin {"idle", "running"}
      /\ \A i \in DOMAIN tasks[t].streams : tasks[t].streams[i].status # "open"

\* C6: once the status of a Task is success, error or aborted, no step changes
\* its status, outcome, result or error.
C6_TerminalIsFinal ==
  [][\A t \in TaskIds :
       (tasks[t].born /\ tasks[t].status \in Terminal) =>
         /\ tasks'[t].status = tasks[t].status
         /\ tasks'[t].outcome = tasks[t].outcome
         /\ tasks'[t].result = tasks[t].result
         /\ tasks'[t].error = tasks[t].error]_vars

\* a Task aborted while its function was in flight, after the late settlement
\* of the function and the end of run()
C6_Witness ==
  \E t \in TaskIds :
    /\ tasks[t].born /\ tasks[t].status = "aborted" /\ tasks[t].invoked = 1
    /\ tasks[t].pc = "finalized" /\ tasks[t].result = "null" /\ tasks[t].error = "null"

\* C7 as stated: the status changes only pending -> running and
\* running -> success | error | aborted.
C7_StrictStatusOrder ==
  [][\A t \in TaskIds :
       (tasks[t].born /\ tasks'[t].status # tasks[t].status) =>
         <<tasks[t].status, tasks'[t].status>> \in
           {<<"pending", "running">>, <<"running", "success">>,
            <<"running", "error">>, <<"running", "aborted">>}]_vars

\* C7 amended: as above, and abort() also takes a pending Task straight to
\* aborted.
C7_StatusOrder ==
  [][\A t \in TaskIds :
       (tasks[t].born /\ tasks'[t].status # tasks[t].status) =>
         <<tasks[t].status, tasks'[t].status>> \in
           {<<"pending", "running">>, <<"pending", "aborted">>, <<"running", "success">>,
            <<"running", "error">>, <<"running", "aborted">>}]_vars

\* a Task that was aborted before run() was ever called on it
C7_Witness ==
  \E t \in TaskIds :
    tasks[t].born /\ tasks[t].status = "aborted" /\ tasks[t].pc = "new"
      /\ tasks[t].promise = "none"

\* C8: the user function is invoked at most once per Task, and a run() call on
\* a Task whose status is not pending rejects and changes nothing of the Task.
C8_RunAtMostOnce ==
  /\ [](\A t \in TaskIds : tasks[t].born => tasks[t].invoked <= 1)
  /\ [][\A t \in TaskIds :
          (tasks[t].born /\ tasks[t].status # "pending"
             /\ \E d \in BOOLEAN, lk \in ListenerKinds : TaskRun(t, d, lk))
            => tasks' = tasks /\ last' = "cannotRun"]_vars

\* a second run() was rejected while the first one is still in flight
C8_Witness ==
  \E t \in TaskIds :
    tasks[t].born /\ last = "cannotRun" /\ tasks[t].status = "running"
      /\ tasks[t].invoked = 1

\* C9: a Task whose signal was aborted after run() had started ends aborted:
\* status and outcome aborted, result and error null, and the run() promise
\* never resolves (it is rejected once run() has finished).
C9_AbortInFlightEndsAborted ==
  \A t \in TaskIds :
    (tasks[t].born /\ tasks[t].aborted /\ tasks[t].pc # "new") =>
      /\ tasks[t].status = "aborted" /\ tasks[t].outcome = "aborted"
      /\ tasks[t].result = "null" /\ tasks[t].error = "null"
      /\ tasks[t].promise \in {"pending", "rejected"}
      /\ tasks[t].pc \in {"finalized", "done"} => tasks[t].promise = "rejected"

\* a queued run was aborted, later dispatched, its function ran and run() ended
C9_Witness ==
  \E t \in TaskIds :
    /\ tasks[t].born /\ tasks[t].aborted /\ tasks[t].invoked = 1
    /\ tasks[t].pc \in {"finalized", "done"} /\ tasks[t].promise = "rejected"
    /\ pooled

\* C10: on a Task whose status is success, error or aborted no step adds a
\* worker, handler or stream or runs an effect function; effect, spawnWorker,
\* addHandler and createStream fail with the not-active error and run fails,
\* all leaving the Task unchanged.
C10_InactiveTaskRefuses ==
  [][\A t \in TaskIds :
       (tasks[t].born /\ tasks[t].status \in Terminal) =>
         /\ Len(tasks'[t].workers) = Len(tasks[t].workers)
         /\ Len(tasks'[t].handlers) = Len(tasks[t].handlers)
         /\ Len(tasks'[t].streams) = Len(tasks[t].streams)
         /\ last' # "effect"
         /\ ((\E lk \in ListenerKinds : SpawnWorker(t, lk)) \/ AddHandler(t)
               \/ CreateStream(t) \/ TaskEffect(t))
              => tasks' = tasks /\ last' = "notActive"
         /\ (\E d \in BOOLEAN, lk \in ListenerKinds : TaskRun(t, d, lk))
              => tasks' = tasks /\ last' = "cannotRun"]_vars

\* a ctx call or effect() has just failed on a Task that ended in success
C10_Witness ==
  \E t \in TaskIds :
    tasks[t].born /\ tasks[t].status = "success" /\ last = "notActive"
      /\ tasks[t].invoked = 1

\* C11: every transition() call follows the table (INIT -> ATTACHED on mounted,
\* ATTACHED -> RUNNING on taskStarted, RUNNING <-> SUSPENDED on suspend/resume,
\* ATTACHED, RUNNING, SUSPENDED -> DISPOSING on dispose, DISPOSING -> DISPOSED
\* on any event, no change otherwise) and returns true iff the state changed;
\* a state is revisited only inside RUNNING <-> SUSPENDED, and once isAlive is
\* false it stays false.
C11_Expected(s, e) ==
  CASE s = "INIT" /\ e = "mounted"                                      -> "ATTACHED"
    [] s = "ATTACHED" /\ e = "taskStarted"                              -> "RUNNING"
    [] s = "RUNNING" /\ e = "suspend"                                   -> "SUSPENDED"
    [] s = "SUSPENDED" /\ e = "resume"                                  -> "RUNNING"
    [] s \in {"ATTACHED", "RUNNING", "SUSPENDED"} /\ e = "dispose"      -> "DISPOSING"
    [] s = "DISPOSING"                                                  -> "DISPOSED"
    [] OTHER                                                            -> s

C12_CreateTaskGate ==
  [][((\E ref \in ExplicitRefs \cup {NoRef} : CreateTask(ref))
        \/ (\E d \in BOOLEAN : ScopeRun(d, "none")))
      => CASE fsm \in {"ATTACHED", "RUNNING"} ->
                /\ last' = "ok"
                /\ \E t \in TaskIds :
                     ~tasks[t].born /\ tasks'[t].born /\ t \in Registered(table')
           [] fsm \in {"INIT", "SUSPENDED"} ->
                last' = "notReady" /\ UNCHANGED <<fsm, table, tasks>>
           [] OTHER ->
                last' = "disposed" /\ UNCHANGED <<fsm, table, tasks>>]_vars

\* createTask has just been refused on a suspended Scope that holds a Task
C12_Witness ==
  fsm = "SUSPENDED" /\ last = "notReady" /\ Len(table) > 0

\* C13: the user function of a Task is invoked only in a step taken while the
\* Scope's canExecute is true (ATTACHED or RUNNING).
C13_StartsOnlyWhileExecutable ==
  [][\A t \in TaskIds :
       (tasks'[t].born
          /\ tasks'[t].invoked > (IF tasks[t].born THEN tasks[t].invoked ELSE 0))
         => CanExecute(fsm)]_vars

\* C14: no Task exists while the Scope is ATTACHED (the first successful
\* createTask leaves it RUNNING); a Task created by scope.run whose promise has
\* settled is not in the TaskTable, whatever its outcome; when every Task is
\* such a Task the table is empty; and the step that settles scope.run leaves
\* the FSM state as it was.
C14_RunUnregisters ==
  /\ [](/\ fsm = "ATTACHED" => \A t \in TaskIds : ~tasks[t].born
        /\ \A t \in TaskIds :
             (tasks[t].born /\ tasks[t].viaRun /\ tasks[t].pc = "done")
               => t \notin Registered(table)
        /\ (\A t \in TaskIds : tasks[t].born => tasks[t].viaRun /\ tasks[t].pc = "done")
             => Len(table) = 0)
  /\ [][\A t \in TaskIds :
          (tasks[t].born /\ tasks[t].pc # "done" /\ tasks'[t].pc = "done")
            => fsm' = fsm /\ tasks'[t].status \in Terminal]_vars

\* the only Task of a RUNNING Scope came from scope.run, was aborted, and its
\* promise has settled
C14_Witness ==
  /\ fsm = "RUNNING" /\ Len(table) = 0
  /\ \E t \in TaskIds :
       /\ tasks[t].born /\ tasks[t].viaRun /\ tasks[t].pc = "done"
       /\ tasks[t].status = "aborted" /\ tasks[t].invoked = 1
       /\ \A u \in TaskIds \ {t} : ~tasks[u].born

C16_AbortTask ==
  [][\A ref \in AllRefs :
       ScopeAbortTask(ref) =>
         IF \E i \in DOMAIN table : table[i].ref = ref
         THEN LET t == table[CHOOSE i \in DOMAIN table : table[i].ref = ref].task IN
              /\ last' = "true"
              /\ ~IsActive(tasks'[t])
              /\ t \notin Registered(table')
              /\ Len(table') = Len(table) - 1
              /\ \A u \in TaskIds \ {t} : tasks'[u] = tasks[u]
              /\ fsm' = fsm
         ELSE last' = "false" /\ UNCHANGED <<fsm, table, tasks>>]_vars

\* abortTask has just returned true for a running Task while another Task of
\* the Scope stays registered and active
C16_Witness ==
  /\ last = "true"
  /\ \E t, u \in TaskIds :
       /\ tasks[t].born /\ tasks[t].status = "aborted" /\ tasks[t].pc # "new"
       /\ t \notin Registered(table)
       /\ tasks[u].born /\ IsActive(tasks[u]) /\ u \in Registered(table)

\* C17: of two works that were both pushed on the queue, the one pushed
\* earlier is dispatched earlier and its function is invoked earlier; the
\* queue changes only by a push at its tail, by the removal of its head, or by
\* being emptied by dispose(); and the completion of a work while the queue is
\* not empty removes exactly the head of the queue and dispatches it.
C17_QueueIsFIFO ==
  /\ [](\A a, b \in WorkIds :
          (a < b /\ works[a].wasQueued /\ works[b].wasQueued) =>
            /\ works[b].dseq > 0 => (works[a].dseq > 0 /\ works[a].dseq < works[b].dseq)
            /\ works[b].invoked > 0 => works[a].invoked > 0)
  /\ [][/\ queue' # queue =>
            \/ \E w \in WorkIds : queue' = Append(queue, w)
            \/ queue # <<>> /\ queue' = Tail(queue) /\ works'[Head(queue)].at = "dispatched"
            \/ queue' = <<>> /\ pdisposed'
        /\ \A w \in WorkIds :
             (works[w].at = "settled" /\ works'[w].at = "done"
                /\ ~pdisposed /\ queue # <<>>)
               => queue' = Tail(queue) /\ works'[Head(queue)].at = "dispatched"]_vars

\* three works were queued behind a busy worker and the last of them has
\* been started
C17_Witness ==
  \E a, b, c \in WorkIds :
    /\ a < b /\ b < c
    /\ works[a].wasQueued /\ works[b].wasQueued /\ works[c].wasQueued
    /\ works[c].invoked = 1

\* C18: the pool never holds more workers than maxWorkers.
C18_SizeWithinMax == Len(pworkers) <= pmax

\* C19: scale(k) with k below the current size removes exactly
\* min(size - k, idleCount) workers, leaves every busy worker in place and
\* leaves the queue and the works as they were.
C19_ScaleDownRemovesIdle ==
  [][\A k \in 0..MaxScale :
       (PoolScale(k) /\ ~pdisposed /\ k < Len(pworkers)) =>
         /\ Len(pworkers') = Len(pworkers)
              - Min(Len(pworkers) - k,
                    Cardinality({i \in DOMAIN pworkers : pworkers[i].state = "idle"}))
         /\ SelectSeq(pworkers', LAMBDA x : x.state = "busy")
              = SelectSeq(pworkers, LAMBDA x : x.state = "busy")
         /\ \A i \in DOMAIN pworkers' : pworkers'[i].state \in {"idle", "busy"}
         /\ queue' = queue /\ works' = works]_vars

\* C20: dispose() rejects the promise of every queued work and empties the
\* pool and the queue; on a disposed pool the workers and the queue stay
\* empty, execute() returns a rejected promise and pushes nothing, and the
\* function of a work that was dropped from the queue or refused is never
\* invoked.
C20_DisposeDropsQueue ==
  /\ [](/\ pdisposed => Len(pworkers) = 0 /\ Len(queue) = 0
        /\ \A w \in WorkIds :
             works[w].at \in {"dropped", "refused"}
               => works[w].invoked = 0 /\ works[w].promise = "rejected")
  /\ [][\A w \in WorkIds :
          /\ (~pdisposed /\ pdisposed' /\ works[w].at = "queued")
               => works'[w].at = "dropped" /\ works'[w].promise = "rejected"
          /\ (pdisposed /\ works[w].at = "none" /\ works'[w].at # "none")
               => works'[w].at = "refused" /\ works'[w].promise = "rejected"
          /\ works[w].at \in {"dropped", "refused"} => works'[w] = works[w]
          /\ pdisposed => pdisposed']_vars

\* a pool disposed with a work in its queue, then given one more work and a
\* scale() call
C20_Witness ==
  /\ pdisposed /\ pmax > 0
  /\ \E w, v \in WorkIds : works[w].at = "dropped" /\ works[v].at = "refused"

\* C21 as stated: in a pool that is not disposed the number of busy workers
\* equals the number of dispatched works whose function has not settled.
C21_BusyIsUnsettled ==
  ~pdisposed =>
    Cardinality({i \in DOMAIN pworkers : pworkers[i].state = "busy"})
      = Cardinality({w \in WorkIds : works[w].at \in {"dispatched", "running"}})

\* C21 amended: in a pool that is not disposed every worker is idle or busy,
\* each busy worker holds one work of its own, and the busy workers are as
\* many as the dispatched works whose finally step has not run yet (a settled
\* work keeps its worker busy until that step); the finally step of a work,
\* settled by return or by throw, keeps the pool at its size and leaves the
\* worker idle or busy with the head of the queue.
C21_InFlight == {w \in WorkIds : works[w].at \in {"dispatched", "running", "settled"}}

C21_BusyAccounting ==
  /\ [](~pdisposed =>
          /\ \A i \in DOMAIN pworkers :
               /\ pworkers[i].state \in {"idle", "busy"}
               /\ pworkers[i].state = "idle" => pworkers[i].work = 0
               /\ pworkers[i].state = "busy" => pworkers[i].work \in C21_InFlight
               /\ \A j \in DOMAIN pworkers :
                    (i # j /\ pworkers[i].state = "busy" /\ pworkers[j].state = "busy")
                      => pworkers[i].work # pworkers[j].work
          /\ Cardinality({i \in DOMAIN pworkers : pworkers[i].state = "busy"})
               = Cardinality(C21_InFlight))
  /\ [][\A w \in WorkIds :
          (~pdisposed /\ works[w].at = "settled" /\ works'[w].at = "done") =>
            /\ Len(pworkers') = Len(pworkers)
            /\ \A i \in DOMAIN pworkers :
                 pworkers[i].work = w =>
                   \/ pworkers'[i] = [state |-> "idle", work |-> 0] /\ queue = <<>>
                   \/ \E j \in DOMAIN pworkers' :
                        queue # <<>> /\ pworkers'[j] = [state |-> "busy", work |-> Head(queue)]
                          /\ (j # i => pworkers'[i].state = "idle")]_vars

\* a work that threw has completed and every worker of the live pool is idle
C21_Witness ==
  /\ ~pdisposed /\ Len(pworkers) > 0
  /\ \A i \in DOMAIN pworkers : pworkers[i].state = "idle"
  /\ \E w \in WorkIds :
       works[w].at = "done" /\ works[w].promise = "rejected" /\ works[w].invoked = 1

\* C22: between calls, every subscriber has been called exactly once with each
\* value that was emitted while it was subscribed, and the values it was
\* called with appear in the order they were appended to the buffer.
C22_ExactlyOnceInOrder ==
  \A s \in Subs :
    LET got == stream.sub[s].got
        due == stream.sub[s].due
    IN /\ \A k \in DOMAIN due :
            Cardinality({j \in DOMAIN got : got[j] = due[k]}) = 1
       /\ \A i, j \in DOMAIN got : i < j => got[i] <= got[j]

\* C23: between calls, the values delivered to a subscriber that is still
\* subscribed to an open Stream are exactly the buffer, in order.
C23_DeliveredEqualsBuffer ==
  \A s \in Subs :
    (stream.status = "open" /\ stream.sub[s].state = "live")
      => stream.sub[s].got = [k \in 1..stream.buflen |-> k]

\* C24: on a Stream that is not open the subscriber set is empty, and no step
\* changes its status or its buffer, calls a subscriber or registers one: a
\* function given to subscribe() is refused.
C24_LeftOpenIsFinal ==
  /\ [](stream.status # "open" =>
          stream.slots = <<>> /\ \A s \in Subs : stream.sub[s].state # "live")
  /\ [][stream.status # "open" =>
          /\ stream'.status = stream.status
          /\ stream'.buflen = stream.buflen
          /\ \A s \in Subs :
               /\ stream'.sub[s].got = stream.sub[s].got
               /\ stream'.sub[s].state # stream.sub[s].state
                    => stream.sub[s].state = "new" /\ stream'.sub[s].state = "refused"]_vars

\* emit() has just been called on a closed Stream that holds a value, had a
\* subscriber, and has refused another one
C24_Witness ==
  /\ stream.status = "closed" /\ last = "emit" /\ stream.buflen > 0
  /\ \E s, u \in Subs :
       /\ stream.sub[s].state = "gone" /\ stream.sub[s].got # <<>>
       /\ stream.sub[u].state = "refused"

C26_ListenerErrorsContained ==
  /\ last # "threw"
  /\ auth.fired \subseteq {"none", "throw"} => auth.invoked = auth.snapshot

\* C27: a broadcast calls exactly the listeners that were in the Set of its
\* channel when it was called, each once, in subscription order.
C27_BroadcastSnapshot == auth.invoked = auth.snapshot

\* C28: no two alive Scopes constructed by one Authority carry the same id.
C28_OneAliveScopePerId ==
  \A o, p \in DOMAIN auth.objs :
    (o # p /\ IsAlive(auth.objs[o].fsm) /\ IsAlive(auth.objs[p].fsm))
      => auth.objs[o].id # auth.objs[p].id

\* C29: createScope throws exactly when the Authority is disposed or a Scope,
\* alive or not, is registered under the id; a call that throws leaves the
\* registry, the Scopes and the size of the pool as they were, a call that
\* returns registers a new Scope in INIT under the id; and once
\* unregisterScope(id) has returned on an Authority that is not disposed,
\* createScope with that id does not throw.
C29_CreateScopeFailsExactly ==
  [][/\ \A id \in ScopeIds, workers \in 0..MaxScale :
          AuthCreateScope(id, workers) =>
            /\ (last' = "threw") <=> (auth.disposed \/ auth.reg[id] # 0)
            /\ last' = "threw" =>
                 /\ auth'.reg = auth.reg /\ auth'.objs = auth.objs
                 /\ Len(pworkers') = Len(pworkers)
            /\ last' = "created" =>
                 /\ auth'.reg[id] = Len(auth.objs) + 1
                 /\ auth'.objs = Append(auth.objs, [id |-> id, fsm |-> "INIT"])
                 /\ \A other \in ScopeIds \ {id} : auth'.reg[other] = auth.reg[other]
     /\ \A id \in ScopeIds :
          (AuthUnregisterScope(id) /\ ~auth.disposed) =>
            \A workers \in 0..MaxScale :
              ~CreatedScope(auth', pworkers', pmax', pdisposed', id, workers).threw]_vars

\* createScope has just thrown on an Authority that is not disposed and whose
\* registered Scopes are all disposed
C29_Witness ==
  /\ last = "threw" /\ ~auth.disposed
  /\ \A id \in ScopeIds :
       auth.reg[id] # 0 => auth.objs[auth.reg[id]].fsm = "DISPOSED"

\* C30: the call of dispose() that disposes the Authority leaves every Scope
\* that was registered not alive, the registry and the listener table empty
\* and the pool disposed, and createScope throws afterwards.
C30_AuthorityDisposeTearsDown ==
  [][(~auth.disposed /\ auth'.disposed) =>
       /\ \A o \in RegisteredScopes(auth) : ~IsAlive(auth'.objs[o].fsm)
       /\ RegisteredScopes(auth') = {}
       /\ auth'.keys = {}
       /\ pdisposed'
       /\ \A id \in ScopeIds, workers \in 0..MaxScale :
            CreatedScope(auth', pworkers', pmax', pdisposed', id, workers).threw]_vars

\* C31: no two Tasks carry the same ref.
C31_RefsAreUnique ==
  \A t, u \in TaskIds :
    (t # u /\ tasks[t].born /\ tasks[u].born) => tasks[t].ref # tasks[u].ref

\* C32: a Worker's status changes only idle -> running, running -> terminated,
\* running -> failed or idle -> terminated; it becomes failed only when its
\* function throws while its signal is not aborted, and terminate() leaves a
\* failed Worker failed.
C32_WorkerStatusOrder ==
  [][\A i \in UnitIds :
       LET w == units.workers[i]
           v == units'.workers[i]
       IN /\ v.status # w.status =>
               <<w.status, v.status>> \in {<<"idle", "running">>, <<"running", "terminated">>,
                                         <<"running", "failed">>, <<"idle", "terminated">>}
          /\ (v.status = "failed" /\ w.status # "failed") =>
               UnitWorkerSettle(i, "throw") /\ ~w.aborted
          /\ (w.status = "failed" /\ UnitWorkerTerminate(i)) => v = w]_vars

\* one Worker was terminated while running and its function threw afterwards,
\* the other failed and terminate() was then called on it
C32_Witness ==
  \E i, j \in UnitIds :
    /\ units.workers[i].status = "terminated" /\ units.workers[i].aborted
    /\ units.workers[i].invoked = 1 /\ ~units.workers[i].fnLive
    /\ units.workers[j].status = "failed" /\ ~units.workers[j].aborted
    /\ last = "ok"

C34_SizeWithinMark == Len(sbuf.chunks) <= sbuf.mark

\* C34: for a highWaterMark that is not negative the size never exceeds it;
\* push returns true and appends the chunk at the end when the buffer is not
\* closed and its size is below the highWaterMark, and otherwise returns false
\* and leaves the chunks as they were; close and getChunks leave the chunks as
\* they were, and getChunks and drain return them in push order.
C34_BoundedOrderedBuffer ==
  /\ [](sbuf.mark >= 0 => Len(sbuf.chunks) <= sbuf.mark)
  /\ [][/\ \A c \in Chunks :
             BufferPush(c) =>
               IF ~sbuf.closed /\ Len(sbuf.chunks) < sbuf.mark
               THEN sbuf'.ret = TRUE /\ sbuf'.chunks = Append(sbuf.chunks, c)
               ELSE sbuf'.ret = FALSE /\ sbuf'.chunks = sbuf.chunks
        /\ (BufferClose \/ BufferGetChunks) => sbuf'.chunks = sbuf.chunks
        /\ (BufferGetChunks \/ BufferDrain) => sbuf'.out = sbuf.chunks
        /\ sbuf'.mark = sbuf.mark]_vars

\* a push has just been refused by an open buffer that is full
C34_Witness ==
  /\ last = "push" /\ sbuf.ret = FALSE /\ ~sbuf.closed
  /\ sbuf.mark > 1 /\ Len(sbuf.chunks) = sbuf.mark
  /\ sbuf.chunks[1] # sbuf.chunks[2]

C36_ScopesIsolated ==
  [][\A k \in ScopeNos :
       (\/ last' = "dispose" /\ MultiDispose(k)
        \/ last' = "suspend" /\ MultiTransition(k, "suspend")
        \/ last' = "resume" /\ MultiTransition(k, "resume")
        \/ last' = "abortAll" /\ MultiAbortAll(k)
        \/ last' \in {"true", "false"} /\ \E ref \in AllRefs : MultiAbortTask(k, ref)) =>
         /\ \A j \in ScopeNos \ {k} : multi'.scopes[j] = multi.scopes[j]
         /\ \A t \in TaskIds :
              (multi.owner[t] # 0 /\ multi.owner[t] # k) =>
                tasks'[t].status = tasks[t].status]_vars

\* dispose() has just aborted the Task of one Scope while another Scope holds
\* a Task with the same ref that is still running
C36_Witness ==
  /\ last = "dispose"
  /\ \E t, u \in TaskIds :
       /\ tasks[t].born /\ tasks[u].born
       /\ multi.owner[t] # multi.owner[u]
       /\ tasks[t].ref = tasks[u].ref
       /\ tasks[t].status = "aborted" /\ tasks[u].status = "running"
       /\ multi.scopes[multi.owner[t]].fsm = "DISPOSED"
       /\ multi.scopes[multi.owner[u]].fsm = "RUNNING"

C37_Max(a, b) == IF a > b THEN a ELSE b

\* C37: a createScope that returns, given engine.workers = w (0: none given),
\* leaves the pool with max(previous size, min(w, maxWorkers)) workers, and
\* never with fewer workers than before.
C37_CreateScopeScalesUp ==
  [][\A id \in ScopeIds, w \in 0..MaxScale :
       (last' = "created" /\ AuthCreateScope(id, w)) =>
         /\ Len(pworkers') = C37_Max(Len(pworkers), Min(w, pmax))
         /\ Len(pworkers') >= Len(pworkers)]_vars

\* C38: in a pool that is not disposed, work waits in the queue only while no
\* worker is idle.
C38_NoIdleWhileQueued ==
  (~pdisposed /\ queue # <<>>) => \A i \in DOMAIN pworkers : pworkers[i].state # "idle"

\* C39: in a pool that is never disposed, the promise of every work given to
\* execute() is eventually settled; the one excuse granted here is a pool that
\* stays without any worker for ever.
C39_EveryWorkSettles ==
  \A w \in WorkIds :
    [](works[w].at # "none" =>
         <>(\/ pdisposed
            \/ works[w].promise \in {"resolved", "rejected"}
            \/ [](pworkers = <<>>)))

\* C40: execute() hands a new work to an idle worker only when no earlier
\* work is waiting in the queue.
C40_StartInSubmissionOrder ==
  [][\A w \in WorkIds :
       (PoolExecute(w) /\ works'[w].at = "dispatched") => queue = <<>>]_vars

====
